---------------------------- MODULE Spec2Model ----------------------------
(***************************************************************************)
(* Model of the Go Manager plug-in (src/main.ts): the DataviewJS program   *)
(* that the "Create Show Data" command writes (the indexing run over the   *)
(* SGF files, the companion notes it upserts, and the filter / sort / page *)
(* controller of the rendered table).                                      *)
(*                                                                         *)
(* A JavaScript string is modelled as a sequence of tokens.  Text that the *)
(* program parses (SGF source, tag values, player names) is a sequence of  *)
(* one-character strings; a fixed piece of text the program only copies    *)
(* (a file name, a folder name, a fence) is one token.  Concatenation is   *)
(* \o and "" is << >>.  The Japanese literals of the program are written   *)
(* in Latin letters: "gosen" (even game), "shi" (stones), "kuro" / "shiro" *)
(* (black / white), "subete" (all), "taikyoku-note" and "kento" (the two   *)
(* note folders), "fuseki" (the default pattern name).                     *)
(***************************************************************************)
EXTENDS Integers, Sequences, FiniteSets, TLC

\* ------------------------------------------------------------------------
\* Characters
\* ------------------------------------------------------------------------

\* Not-a-Number, as a result of parseInt (a result is [nan, n]).
NaN == [nan |-> TRUE, n |-> 0]

Lower ==
    << "a","b","c","d","e","f","g","h","i","j","k","l","m",
       "n","o","p","q","r","s","t","u","v","w","x","y","z" >>

Upper ==
    << "A","B","C","D","E","F","G","H","I","J","K","L","M",
       "N","O","P","Q","R","S","T","U","V","W","X","Y","Z" >>

Digits == << "0","1","2","3","4","5","6","7","8","9" >>

\* The position of c in the sequence s, 0 when it is not there.
IndexOf(s, c) ==
    IF \E i \in DOMAIN s : s[i] = c
    THEN CHOOSE i \in DOMAIN s : s[i] = c
    ELSE 0

IsLower(c) == IndexOf(Lower, c) > 0

IsDigit(c) == IndexOf(Digits, c) > 0

\* \s of a regular expression, String.prototype.trim's white space.
IsSpace(c) == c \in {" ", "\n", "\t", "\r"}

\* "a".charCodeAt(0) is 97.
charCodeAt(c) == IndexOf(Lower, c) + 96

\* String.prototype.toLowerCase on one character.
LowerChar(c) ==
    LET i == IndexOf(Upper, c)
    IN  IF i > 0 THEN Lower[i] ELSE c

toLowerCase(s) == [i \in DOMAIN s |-> LowerChar(s[i])]

RECURSIVE TrimStart(_)
TrimStart(s) ==
    IF s # << >> /\ IsSpace(Head(s)) THEN TrimStart(Tail(s)) ELSE s

RECURSIVE TrimEnd(_)
TrimEnd(s) ==
    IF s # << >> /\ IsSpace(s[Len(s)])
    THEN TrimEnd(SubSeq(s, 1, Len(s) - 1))
    ELSE s

\* String.prototype.trim
trim(s) == TrimEnd(TrimStart(s))

\* s.startsWith(p)
startsWith(s, p) == Len(s) >= Len(p) /\ SubSeq(s, 1, Len(p)) = p

\* Whether p occurs in s at position i (1-based).
OccursAt(s, p, i) ==
    /\ i >= 1
    /\ i + Len(p) - 1 <= Len(s)
    /\ SubSeq(s, i, i + Len(p) - 1) = p

\* s.includes(p)
includes(s, p) == \E i \in 1..(Len(s) + 1) : OccursAt(s, p, i)

\* s.indexOf(c, from) as a 1-based position at or after from, 0 when absent.
indexOfFrom(s, c, from) ==
    IF \E i \in from..Len(s) : s[i] = c
    THEN CHOOSE i \in from..Len(s) :
            s[i] = c /\ \A j \in from..(i - 1) : s[j] # c
    ELSE 0

\* The decimal digits of a natural number, as String(n) writes them.
RECURSIVE NatToStr(_)
NatToStr(n) ==
    IF n < 10 THEN << Digits[n + 1] >>
    ELSE NatToStr(n \div 10) \o << Digits[(n % 10) + 1] >>

\* String(n) for an integer.
IntToStr(n) == IF n < 0 THEN << "-" >> \o NatToStr(-n) ELSE NatToStr(n)

\* The value of a sequence of digits (0 for the empty one).
RECURSIVE DigitsVal(_)
DigitsVal(ds) ==
    IF ds = << >> THEN 0
    ELSE 10 * DigitsVal(SubSeq(ds, 1, Len(ds) - 1)) + (IndexOf(Digits, ds[Len(ds)]) - 1)

\* The longest prefix of s made of digits.
RECURSIVE DigitPrefix(_)
DigitPrefix(s) ==
    IF s # << >> /\ IsDigit(Head(s))
    THEN << Head(s) >> \o DigitPrefix(Tail(s))
    ELSE << >>

\* parseInt(s, 10): leading white space, an optional sign, then the longest
\* run of digits; NaN when there is no digit.
parseInt(s) ==
    LET t    == TrimStart(s)
        neg  == t # << >> /\ Head(t) = "-"
        sgn  == t # << >> /\ Head(t) \in {"-", "+"}
        body == IF sgn THEN Tail(t) ELSE t
        ds   == DigitPrefix(body)
    IN  IF ds = << >> THEN NaN
        ELSE [nan |-> FALSE, n |-> IF neg THEN 0 - DigitsVal(ds) ELSE DigitsVal(ds)]

\* Number.isFinite on a value parseInt returns.
isFinite(v) == ~v.nan


\* ------------------------------------------------------------------------
\* Tag extraction, handicap and result formatting
\* ------------------------------------------------------------------------

\* The first position at or after i that holds no white space.
RECURSIVE SkipSpace(_, _)
SkipSpace(s, i) ==
    IF i <= Len(s) /\ IsSpace(s[i]) THEN SkipSpace(s, i + 1) ELSE i

\* One attempt of the regular expression of tag at position p:
\*   (?:^|[;\s\(\]]) key \s* \[ ([^\]]*) \]
\* ok tells whether it matches there, val is the captured group.
tagMatchAt(src, key, p) ==
    LET ks == IF p = 1 /\ OccursAt(src, key, 1) THEN 1
              ELSE IF /\ p <= Len(src)
                      /\ (src[p] \in {";", "(", "]"} \/ IsSpace(src[p]))
                      /\ OccursAt(src, key, p + 1)
                   THEN p + 1
                   ELSE 0
        q  == SkipSpace(src, ks + Len(key))
        cl == IF ks > 0 /\ q <= Len(src) /\ src[q] = "["
              THEN indexOfFrom(src, "]", q + 1)
              ELSE 0
    IN  IF cl = 0 THEN [ok |-> FALSE, val |-> << >>]
        ELSE [ok |-> TRUE, val |-> SubSeq(src, q + 1, cl - 1)]

\* The first match as it stands in the text, white space kept.
tagUntrimmed(src, key) ==
    LET hits == {p \in 1..Len(src) : tagMatchAt(src, key, p).ok}
    IN  IF hits = {} THEN << >>
        ELSE LET p == CHOOSE x \in hits : \A y \in hits : x <= y
             IN  tagMatchAt(src, key, p).val

\* const tag = (src, key) => { ... }: the first (leftmost) match, trimmed.
tag(src, key) ==
    LET hits == {p \in 1..Len(src) : tagMatchAt(src, key, p).ok}
    IN  IF hits = {} THEN << >>
        ELSE LET p == CHOOSE x \in hits : \A y \in hits : x <= y
             IN  trim(tagMatchAt(src, key, p).val)

KeySZ == << "S", "Z" >>
KeyPB == << "P", "B" >>
KeyPW == << "P", "W" >>
KeyGN == << "G", "N" >>
KeyHA == << "H", "A" >>
KeyRE == << "R", "E" >>

EvenGame == << "gosen" >>

\* const toHandicap = (haRaw) => { ... }
toHandicap(haRaw) ==
    IF haRaw = << >> THEN EvenGame
    ELSE LET n == parseInt(haRaw)
         IN  IF ~isFinite(n) \/ n.n = 0 THEN EvenGame
             ELSE IntToStr(n.n) \o << "shi" >>

\* s without its trailing "0" characters.
RECURSIVE StripZeros(_)
StripZeros(s) ==
    IF s # << >> /\ s[Len(s)] = "0"
    THEN StripZeros(SubSeq(s, 1, Len(s) - 1))
    ELSE s

\* Number(rest) for the decimal literals an SGF result carries: optional
\* white space and sign, digits, an optional fraction; "" is 0.  The value
\* is [nan, neg, int, frac] with frac the fraction digits without trailing
\* zeros.  Exponent, hexadecimal and Infinity literals are outside the model
\* (they give NaN here).
Number(rest) ==
    LET t    == trim(rest)
        sgn  == t # << >> /\ Head(t) \in {"-", "+"}
        neg  == t # << >> /\ Head(t) = "-"
        u    == IF sgn THEN Tail(t) ELSE t
        ip   == DigitPrefix(u)
        r1   == SubSeq(u, Len(ip) + 1, Len(u))
        dot  == r1 # << >> /\ Head(r1) = "."
        fp   == IF dot THEN DigitPrefix(Tail(r1)) ELSE << >>
        used == Len(ip) + (IF dot THEN 1 + Len(fp) ELSE 0)
    IN  IF t = << >>
        THEN [nan |-> FALSE, neg |-> FALSE, int |-> 0, frac |-> << >>]
        ELSE IF used # Len(u) \/ (ip = << >> /\ fp = << >>)
        THEN [nan |-> TRUE, neg |-> FALSE, int |-> 0, frac |-> << >>]
        ELSE [nan |-> FALSE, neg |-> neg, int |-> DigitsVal(ip),
              frac |-> StripZeros(fp)]

\* ${n} for a value of Number.
NumToStr(n) ==
    (IF n.neg /\ (n.int # 0 \/ n.frac # << >>) THEN << "-" >> ELSE << >>)
        \o NatToStr(n.int)
        \o (IF n.frac = << >> THEN << >> ELSE << "." >> \o n.frac)

\* Math.floor of a value of Number that is no integer.
FloorOf(n) == IF n.neg THEN 0 - n.int - 1 ELSE n.int

\* const toJapaneseResult = (reRaw) => { ... }
toJapaneseResult(reRaw) ==
    LET s     == trim(reRaw)
        color == IF startsWith(s, << "B", "+" >>) THEN << "kuro" >>
                 ELSE IF startsWith(s, << "W", "+" >>) THEN << "shiro" >>
                 ELSE << >>
        rest  == SubSeq(s, 3, Len(s))
        num   == Number(rest)
    IN  IF reRaw = << >> THEN << >>
        ELSE IF color = << >> THEN s
        ELSE IF rest = << "R" >> THEN color \o << "chuoshi-gachi" >>
        ELSE IF rest = << "T" >> THEN color \o << "jikangire-gachi" >>
        ELSE IF rest = << "F" >> THEN color \o << "hansoku-gachi" >>
        ELSE IF num.nan THEN s
        ELSE IF num.frac = << >> THEN color \o NumToStr(num) \o << "moku-gachi" >>
        ELSE IF num.frac = << "5" >>
             THEN color \o IntToStr(FloorOf(num)) \o << "mokuhan-gachi" >>
        ELSE color \o NumToStr(num) \o << "moku-gachi" >>

\* ------------------------------------------------------------------------
\* Opening moves and opening patterns
\* ------------------------------------------------------------------------

FUSEKI_MOVES_LIMIT == 7

\* null, as a result of toXY (a result is [null, x, y]).
Null == [null |-> TRUE, x |-> 0, y |-> 0]

\* const toXY = (cc) => { ... }
toXY(cc) ==
    IF cc = << >> \/ Len(cc) < 2 THEN Null
    ELSE LET x == charCodeAt(cc[1]) - 96
             y == charCodeAt(cc[2]) - 96
         IN  IF x <= 0 \/ y <= 0 THEN Null
             ELSE [null |-> FALSE, x |-> x, y |-> y]

\* One attempt of /;([BW])\[([a-z]{0,2})\]/ at position p: the number of
\* letters captured, or -1 when the expression does not match there.
moveMatchAt(src, p) ==
    IF /\ p + 3 <= Len(src)
       /\ src[p] = ";"
       /\ src[p + 1] \in {"B", "W"}
       /\ src[p + 2] = "["
    THEN IF /\ p + 5 <= Len(src) /\ IsLower(src[p + 3]) /\ IsLower(src[p + 4])
            /\ src[p + 5] = "]"
         THEN 2
         ELSE IF p + 4 <= Len(src) /\ IsLower(src[p + 3]) /\ src[p + 4] = "]"
         THEN 1
         ELSE IF src[p + 3] = "]" THEN 0
         ELSE -1
    ELSE -1

\* An extraction in which every match of the expression uses up a slot.
RECURSIVE slotsLoop(_, _, _, _)
slotsLoop(src, from, moves, count) ==
    LET hits == {p \in from..Len(src) : moveMatchAt(src, p) >= 0}
    IN  IF hits = {} \/ count >= FUSEKI_MOVES_LIMIT THEN moves
        ELSE LET p  == CHOOSE x \in hits : \A y \in hits : x <= y
                 n  == moveMatchAt(src, p)
                 pt == toXY(SubSeq(src, p + 3, p + 2 + n))
             IN  slotsLoop(src, p + 4 + n,
                           IF n = 2 /\ ~pt.null
                           THEN Append(moves, [x |-> pt.x, y |-> pt.y,
                                               color |-> src[p + 1]])
                           ELSE moves,
                           count + 1)

openingMovesSlots(src) == slotsLoop(src, 1, << >>, 0)

\* The loop  while ((m = re.exec(src)) && count < FUSEKI_MOVES_LIMIT)  from
\* lastIndex = from - 1, with the moves pushed so far.
RECURSIVE movesLoop(_, _, _)
movesLoop(src, from, moves) ==
    LET hits == {p \in from..Len(src) : moveMatchAt(src, p) >= 0}
    IN  IF hits = {} \/ Len(moves) >= FUSEKI_MOVES_LIMIT THEN moves
        ELSE LET p     == CHOOSE x \in hits : \A y \in hits : x <= y
                 n     == moveMatchAt(src, p)
                 color == src[p + 1]
                 c     == SubSeq(src, p + 3, p + 2 + n)
                 pt    == toXY(c)
             IN  movesLoop(src, p + 4 + n,
                           IF Len(c) = 2 /\ ~pt.null
                           THEN Append(moves, [x |-> pt.x, y |-> pt.y, color |-> color])
                           ELSE moves)

\* const moves = []; try { ... } catch (_) {}
openingMoves(src) == movesLoop(src, 1, << >>)

DefaultFusekiName == "fuseki"

\* The valid entries of the configured list, in order.
validFuseki(fuseki) == SelectSeq(fuseki, LAMBDA p : p.x > 0 /\ p.y > 0)

\* map.set / map.get(name).push for one valid entry.
groupAdd(groups, p) ==
    LET name == IF p.name = "" THEN DefaultFusekiName ELSE p.name
        c    == [x |-> p.x, y |-> p.y]
    IN  IF \E i \in DOMAIN groups : groups[i].name = name
        THEN [i \in DOMAIN groups |->
                 IF groups[i].name = name
                 THEN [groups[i] EXCEPT !.coords = Append(@, c)]
                 ELSE groups[i]]
        ELSE Append(groups, [name |-> name, coords |-> << c >>])

RECURSIVE groupAll(_, _)
groupAll(valid, groups) ==
    IF valid = << >> THEN groups
    ELSE groupAll(Tail(valid), groupAdd(groups, Head(valid)))

\* const FUSEKI_GROUPS = (() => { ... })()
FUSEKI_GROUPS(fuseki) == groupAll(validFuseki(fuseki), << >>)

\* hasSameColorAll without the test m.color === color.
hasAllAnyColor(g, moves, color) ==
    \A k \in DOMAIN g.coords :
        \E j \in DOMAIN moves :
            moves[j].x = g.coords[k].x /\ moves[j].y = g.coords[k].y

\* const hasSameColorAll = (color) => g.coords.every(c => moves.some(...))
hasSameColorAll(g, moves, color) ==
    \A k \in DOMAIN g.coords :
        \E j \in DOMAIN moves :
            /\ moves[j].color = color
            /\ moves[j].x = g.coords[k].x
            /\ moves[j].y = g.coords[k].y

\* groupMatches with the test for black only.
groupMatchesBlack(g, moves) == hasSameColorAll(g, moves, "B")

\* Whether the group g is pushed to matchedFusekiNames.
groupMatches(g, moves) ==
    hasSameColorAll(g, moves, "B") \/ hasSameColorAll(g, moves, "W")

\* const matchedFusekiNames = []; for (const g of FUSEKI_GROUPS) { ... }
matchedFusekiNames(groups, moves) ==
    LET hit == SelectSeq(groups, LAMBDA g : groupMatches(g, moves))
    IN  [i \in DOMAIN hit |-> hit[i].name]

\* ------------------------------------------------------------------------
\* Branch points
\* ------------------------------------------------------------------------

\* A test for a node that holds a stone: B or W with two lower-case letters.
isStoneNode(sgf, i) ==
    /\ OccursAt(sgf, << "B", "[" >>, i + 1) \/ OccursAt(sgf, << "W", "[" >>, i + 1)
    /\ i + 5 <= Len(sgf)
    /\ IsLower(sgf[i + 3])
    /\ IsLower(sgf[i + 4])
    /\ sgf[i + 5] = "]"

\* sgf.slice(i+1, i+3) === "B[" || sgf.slice(i+1, i+3) === "W["
isMoveNode(sgf, i) ==
    OccursAt(sgf, << "B", "[" >>, i + 1) \/ OccursAt(sgf, << "W", "[" >>, i + 1)

\* A test that lets every "(" give a number.
emitsAlways(stack) == TRUE

\* if (char === "(" && stack.length > 1), the stack as it is after the push.
emits(stack) == Len(stack) > 1

\* One round of the while loop of getBranchMoves: const char = sgf[i]; ...
branchStep(sgf, i, currentMove, stack, moves) ==
    LET char == sgf[i]
    IN  IF char = "("
        THEN LET st == Append(stack, currentMove)
             IN  [i |-> i + 1, currentMove |-> currentMove, stack |-> st,
                  moves |-> IF emits(st) THEN Append(moves, st[Len(st)])
                            ELSE moves]
        ELSE IF char = ")"
        THEN [i |-> i + 1, currentMove |-> currentMove,
              stack |-> IF stack = << >> THEN stack
                        ELSE SubSeq(stack, 1, Len(stack) - 1),
              moves |-> moves]
        ELSE IF char = ";"
        THEN [i |-> i + 1,
              currentMove |-> IF isMoveNode(sgf, i) THEN currentMove + 1
                              ELSE currentMove,
              stack |-> stack, moves |-> moves]
        ELSE IF char = "["
        THEN LET endIdx == indexOfFrom(sgf, "]", i)
             IN  [i |-> IF endIdx # 0 THEN endIdx + 1 ELSE i + 1,
                  currentMove |-> currentMove, stack |-> stack, moves |-> moves]
        ELSE [i |-> i + 1, currentMove |-> currentMove, stack |-> stack,
              moves |-> moves]

\* The while loop of getBranchMoves from position i on (1-based).
RECURSIVE branchLoop(_, _, _, _, _)
branchLoop(sgf, i, currentMove, stack, moves) ==
    IF i > Len(sgf) THEN moves
    ELSE \* one round, then the rest of the loop
         LET n == branchStep(sgf, i, currentMove, stack, moves)
         IN  branchLoop(sgf, n.i, n.currentMove, n.stack, n.moves)

\* const getBranchMoves = (sgf) => { ... }
getBranchMoves(sgf) == branchLoop(sgf, 1, 0, << >>, << >>)


\* ------------------------------------------------------------------------
\* The vault: SGF files under the root folder, and the note store
\* ------------------------------------------------------------------------

\* (;SZ[19]PB[Lee]PW[Cho]RE[B+R];B[dd];W[pp])
TextA ==
    << "(", ";", "S", "Z", "[", "1", "9", "]", "P", "B", "[", "L", "e",
       "e", "]", "P", "W", "[", "C", "h", "o", "]", "R", "E", "[", "B",
       "+", "R", "]", ";", "B", "[", "d", "d", "]", ";", "W", "[", "p",
       "p", "]", ")" >>

\*  (;SZ[19]PB[Cho]PW[lee k]HA[2]RE[W+2.5];B[pd](;W[dd])(;W[dp]))\n
TextB ==
    << " ", "(", ";", "S", "Z", "[", "1", "9", "]", "P", "B", "[", "C",
       "h", "o", "]", "P", "W", "[", "l", "e", "e", " ", "k", "]", "H",
       "A", "[", "2", "]", "R", "E", "[", "W", "+", "2", ".", "5", "]",
       ";", "B", "[", "p", "d", "]", "(", ";", "W", "[", "d", "d", "]",
       ")", "(", ";", "W", "[", "d", "p", "]", ")", ")", "\n" >>

\* (;SZ[13]PB[An]PW[Lee]RE[B+3];B[dd])
TextC ==
    << "(", ";", "S", "Z", "[", "1", "3", "]", "P", "B", "[", "A", "n",
       "]", "P", "W", "[", "L", "e", "e", "]", "R", "E", "[", "B", "+",
       "3", "]", ";", "B", "[", "d", "d", "]", ")" >>

\* (;GM[1]SZ[19k]PW[LEE]RE[Draw];W[dd];B[pd])
TextD ==
    << "(", ";", "G", "M", "[", "1", "]", "S", "Z", "[", "1", "9", "k",
       "]", "P", "W", "[", "L", "E", "E", "]", "R", "E", "[", "D", "r",
       "a", "w", "]", ";", "W", "[", "d", "d", "]", ";", "B", "[", "p",
       "d", "]", ")" >>

\* (;PB[Lee]PW[Cho]RE[B+R];B[dd])
TextE ==
    << "(", ";", "P", "B", "[", "L", "e", "e", "]", "P", "W", "[", "C",
       "h", "o", "]", "R", "E", "[", "B", "+", "R", "]", ";", "B", "[",
       "d", "d", "]", ")" >>

\* (;SZ[x19]PB[Lee];B[dd])
TextF ==
    << "(", ";", "S", "Z", "[", "x", "1", "9", "]", "P", "B", "[", "L",
       "e", "e", "]", ";", "B", "[", "d", "d", "]", ")" >>

\* (;SZ[19]PB[lee]PW[Choi]HA[3]RE[B+T];B[dd];W[pd];B[pp])
TextG ==
    << "(", ";", "S", "Z", "[", "1", "9", "]", "P", "B", "[", "l", "e",
       "e", "]", "P", "W", "[", "C", "h", "o", "i", "]", "H", "A", "[", "3",
       "]", "R", "E", "[", "B", "+", "T", "]", ";", "B", "[", "d", "d",
       "]", ";", "W", "[", "p", "d", "]", ";", "B", "[", "p", "p", "]", ")" >>

ExtSgf == << "s", "g", "f" >>
ExtSGF == << "S", "G", "F" >>
ExtMd  == << "m", "d" >>

\* An abstract file of the vault: a folder has children (the positions of
\* its entries in the corpus), a file has basename, extension and text.
Folder(children) ==
    [kind |-> "folder", children |-> children, basename |-> "",
     extension |-> << >>, text |-> << >>]

File(basename, extension, text) ==
    [kind |-> "file", children |-> << >>, basename |-> basename,
     extension |-> extension, text |-> text]

\* The corpora of the model.  root is the entry ROOT resolves to (0 when
\* getAbstractFileByPath(ROOT) is null).
\* Three games of sizes 19, 19 and 13 directly under the root.
CorpusFlat ==
    [root |-> 1,
     nodes |-> << Folder(<< 2, 3, 4 >>),
                  File("g1", ExtSgf, TextA),
                  File("g2", ExtSgf, TextB),
                  File("g3", ExtSgf, TextC) >>]

\* Two sub-folders that each hold a file named g, and a Markdown file.
CorpusTree ==
    [root |-> 1,
     nodes |-> << Folder(<< 2, 3, 4 >>),
                  Folder(<< 5 >>),
                  Folder(<< 6 >>),
                  File("memo", ExtMd, TextA),
                  File("g", ExtSGF, TextA),
                  File("g", ExtSgf, TextB) >>]

\* Files whose board size is missing, not a number, or followed by text.
CorpusOdd ==
    [root |-> 1,
     nodes |-> << Folder(<< 2, 3, 4 >>),
                  File("e", ExtSgf, TextE),
                  File("f", ExtSgf, TextF),
                  File("d", ExtSgf, TextD) >>]

Corpora == {CorpusFlat, CorpusTree, CorpusOdd}

\* ROOT resolves to nothing, to a game file, or to a Markdown file.
CorpusMissing == [root |-> 0, nodes |-> << >>]

CorpusFile == [root |-> 1, nodes |-> << File("g1", ExtSgf, TextA) >>]

CorpusMemo == [root |-> 1, nodes |-> << File("memo", ExtMd, TextA) >>]

NoFolders == {CorpusMissing, CorpusFile, CorpusMemo}

\* const isFolder = (af) => af?.children !== undefined
isFolder(af) == af.kind = "folder"

\* const isFile = (af) => af?.extension !== undefined
isFile(af) == af.kind = "file"

\* One round of the while loop that compares the extension as it is.
walkStepExact(c, stack, results) ==
    LET cur  == stack[Len(stack)]
        rest == SubSeq(stack, 1, Len(stack) - 1)
    IN  IF isFolder(c.nodes[cur])
        THEN [stack |-> rest \o c.nodes[cur].children, results |-> results]
        ELSE IF isFile(c.nodes[cur]) /\ c.nodes[cur].extension = ExtSgf
        THEN [stack |-> rest, results |-> Append(results, cur)]
        ELSE [stack |-> rest, results |-> results]

\* One round of the while loop: const cur = stack.pop(); ...
walkStep(c, stack, results) ==
    LET cur  == stack[Len(stack)]
        rest == SubSeq(stack, 1, Len(stack) - 1)
    IN  IF isFolder(c.nodes[cur])
        THEN [stack |-> rest \o c.nodes[cur].children, results |-> results]
        ELSE IF /\ isFile(c.nodes[cur])
                /\ toLowerCase(c.nodes[cur].extension) = ExtSgf
        THEN [stack |-> rest, results |-> Append(results, cur)]
        ELSE [stack |-> rest, results |-> results]

\* The while loop of walkSgfFiles: stack and results hold positions.
RECURSIVE walkLoop(_, _, _)
walkLoop(c, stack, results) ==
    IF stack = << >> THEN results
    ELSE LET cur  == stack[Len(stack)]
             rest == SubSeq(stack, 1, Len(stack) - 1)
         IN  IF isFolder(c.nodes[cur])
             THEN walkLoop(c, rest \o c.nodes[cur].children, results)
             ELSE IF /\ isFile(c.nodes[cur])
                     /\ toLowerCase(c.nodes[cur].extension) = ExtSgf
             THEN walkLoop(c, rest, Append(results, cur))
             ELSE walkLoop(c, rest, results)

\* function walkSgfFiles(folderPath) { ... }
walkSgfFiles(c) ==
    IF c.root = 0 THEN << >> ELSE walkLoop(c, << c.root >>, << >>)

NOTE_DIR == "taikyoku-note"

REVIEW_DIR == "kento"

\* f.name
fileName(f) == << f.basename, "." >> \o f.extension

\* const notePath = ${NOTE_DIR}/${noteName}.md
notePath(f) == << NOTE_DIR, "/", f.basename, ".md" >>

\* const reviewPath = ${REVIEW_DIR}/${noteName}.md
reviewPath(f) == << REVIEW_DIR, "/", f.basename, ".md" >>

\* const noteContent = "(fence)sgf\n" + src.trim() + "\n(fence)"
\* ((fence) stands for the three backquotes of a Markdown code fence)
noteContent(src) == << "(fence)sgf\n" >> \o trim(src) \o << "\n(fence)" >>

\* ### kento${i+1}\n![[${f.name}|move=${moveNum}]]
reviewSection(f, i, moveNum) ==
    << "### kento" >> \o NatToStr(i) \o << "\n![[" >> \o fileName(f)
        \o << "|move=" >> \o IntToStr(moveNum) \o << "]]" >>

\* reviewSections.join("\n\n---\n\n") from section i on
RECURSIVE joinSections(_, _, _)
joinSections(f, branchMoveNumbers, i) ==
    IF i > Len(branchMoveNumbers) THEN << >>
    ELSE (IF i > 1 THEN << "\n\n---\n\n" >> ELSE << >>)
            \o reviewSection(f, i, branchMoveNumbers[i])
            \o joinSections(f, branchMoveNumbers, i + 1)

reviewContent(f, branchMoveNumbers) == joinSections(f, branchMoveNumbers, 1)

\* const link = [[${notePath}|${f.name}]]
link(f) == << "[[" >> \o notePath(f) \o << "|" >> \o fileName(f) \o << "]]" >>

\* The object pushed to allData for the file f read as src.
gameRecord(f, src, groups) ==
    LET names == matchedFusekiNames(groups, openingMoves(src))
    IN  [pb |-> tag(src, KeyPB),
         pw |-> tag(src, KeyPW),
         gn |-> tag(src, KeyGN),
         haRaw |-> tag(src, KeyHA),
         haDisplay |-> toHandicap(tag(src, KeyHA)),
         reRaw |-> tag(src, KeyRE),
         reDisplay |-> toJapaneseResult(tag(src, KeyRE)),
         link |-> link(f),
         matchedFusekiNames |-> names,
         matchesAnyFuseki |-> Len(names) > 0]

\* szAccepted without the comparison with FILTER_SZ.
szAcceptedAnySize(src, filterSz) == isFinite(parseInt(tag(src, KeySZ)))

\* The negation of  if (!Number.isFinite(sz) || sz !== FILTER_SZ) continue
szAccepted(src, filterSz) ==
    LET sz == parseInt(tag(src, KeySZ))
    IN  isFinite(sz) /\ sz.n = filterSz

\* ------------------------------------------------------------------------
\* updateDisplay: filter, summary, sort, page
\* ------------------------------------------------------------------------

\* The first option of haSelect ("subete": every handicap).
HaAll == << "subete" >>

\* const haOptions = ["subete", ...uniqueHa], as the set of values the
\* select can take (the order of the options is presentation only).
haOptions(data) == {HaAll} \cup {data[i].haDisplay : i \in DOMAIN data}

\* for (const n of [10,20,50,100])
PageSizes == {10, 20, 50, 100}

\* filterData without the filter on haDisplay.
filterDataAnyHa(data, haFilter, groups) ==
    IF Len(groups) > 0
    THEN SelectSeq(data, LAMBDA d : d.matchesAnyFuseki)
    ELSE data

\* 1. the filtering of updateDisplay
filterData(data, haFilter, groups) ==
    LET byHa == IF haFilter # HaAll
                THEN SelectSeq(data, LAMBDA d : d.haDisplay = haFilter)
                ELSE data
    IN  IF Len(groups) > 0
        THEN SelectSeq(byHa, LAMBDA d : d.matchesAnyFuseki)
        ELSE byHa

\* d.reRaw?.startsWith("B+") / d.reRaw?.startsWith("W+")
isBlackWin(d) == startsWith(d.reRaw, << "B", "+" >>)

\* isWhiteWin without the test for "W+".
isNotBlackWin(d) == ~isBlackWin(d)

isWhiteWin(d) == ~isBlackWin(d) /\ startsWith(d.reRaw, << "W", "+" >>)

\* One s.total++ ... of the inner loop, for the pattern name fname.
countGame(st, d) ==
    [total |-> st.total + 1,
     b |-> st.b + (IF isBlackWin(d) THEN 1 ELSE 0),
     w |-> st.w + (IF isWhiteWin(d) THEN 1 ELSE 0)]

\* The inner loop leaving after the first name.
namesLoopFirst(fStats, d, k) ==
    IF k > Len(d.matchedFusekiNames) THEN fStats
    ELSE [fStats EXCEPT ![d.matchedFusekiNames[k]] = countGame(@, d)]

\* for (const fname of d.matchedFusekiNames) { ... } from name k on
RECURSIVE namesLoop(_, _, _)
namesLoop(fStats, d, k) ==
    IF k > Len(d.matchedFusekiNames) THEN fStats
    ELSE LET fname == d.matchedFusekiNames[k]
         IN  namesLoop([fStats EXCEPT ![fname] = countGame(@, d)], d, k + 1)

\* for (const d of filtered) { ... } from element k on
RECURSIVE summaryLoop(_, _, _)
summaryLoop(filtered, k, acc) ==
    IF k > Len(filtered) THEN acc
    ELSE LET d == filtered[k]
             c == countGame([total |-> acc.total, b |-> acc.bWins,
                             w |-> acc.wWins], d)
         IN  summaryLoop(filtered, k + 1,
                         [total |-> c.total, bWins |-> c.b, wWins |-> c.w,
                          fStats |-> namesLoop(acc.fStats, d, 1)])

\* 2. the summary of updateDisplay
summaryOf(filtered, groups) ==
    summaryLoop(filtered, 1,
        [total |-> 0, bWins |-> 0, wWins |-> 0,
         fStats |-> [n \in {groups[i].name : i \in DOMAIN groups} |->
                        [total |-> 0, b |-> 0, w |-> 0]]])

\* A rounding that drops the fraction.
mathFloor(num, den) == num \div den

\* Math.round(num / den) for num >= 0 and den > 0: the nearest integer, a
\* half going up.
mathRound(num, den) == (2 * num + den) \div (2 * den)

\* (tenths / 10).toFixed(1) for an integer tenths >= 0.
toFixed1(tenths) ==
    NatToStr(tenths \div 10) \o << "." >> \o NatToStr(tenths % 10)

\* const pct = (n, d) => d ? (Math.round((n * 1000) / d) / 10).toFixed(1) : "0.0"
pct(n, d) ==
    IF d # 0 THEN toFixed1(mathRound(n * 1000, d)) ELSE << "0", ".", "0" >>

\* What summaryDiv shows of a summary: p1 and p2, then pg1 and pg2 per group.
summaryShown(s) ==
    [total  |-> s.total,
     bWins  |-> s.bWins,
     wWins  |-> s.wWins,
     bRate  |-> pct(s.bWins, s.total),
     wRate  |-> pct(s.wWins, s.total),
     fStats |-> [n \in DOMAIN s.fStats |->
                    [total |-> s.fStats[n].total,
                     b     |-> s.fStats[n].b,
                     w     |-> s.fStats[n].w,
                     bRate |-> pct(s.fStats[n].b, s.fStats[n].total),
                     wRate |-> pct(s.fStats[n].w, s.fStats[n].total)]]]

\* const ak = (a.pb.toLowerCase() === kw || a.pw.toLowerCase() === kw) ? 1 : 0
exactKey(a, kw) ==
    IF toLowerCase(a.pb) = kw \/ toLowerCase(a.pw) = kw THEN 1 ELSE 0

\* const apart = (a.pb.toLowerCase().includes(kw) || ...) ? 1 : 0
partKey(a, kw) ==
    IF includes(toLowerCase(a.pb), kw) \/ includes(toLowerCase(a.pw), kw)
    THEN 1 ELSE 0

\* ak and apart (bk and bpart) of the comparator, for one element.
sortKey(a, kw) == [k |-> exactKey(a, kw), part |-> partKey(a, kw)]

\* compareKeys without the comparison of apart and bpart.
compareKeysExactOnly(ka, kb) == IF ka.k # kb.k THEN kb.k - ka.k ELSE 0

\* if (ak !== bk) return bk - ak; if (apart !== bpart) return bpart - apart;
\* return 0;
compareKeys(ka, kb) ==
    IF ka.k # kb.k THEN kb.k - ka.k
    ELSE IF ka.part # kb.part THEN kb.part - ka.part
    ELSE 0

\* The comparator of displayData.sort
compareGames(a, b, kw) == compareKeys(sortKey(a, kw), sortKey(b, kw))

\* Element x of the list put into the sorted sequence acc of elements (both
\* as positions of the list, keys[i] the key of element i) behind every
\* element that does not compare greater than it (Array.prototype.sort is
\* stable).
insertGame(acc, x, keys) ==
    LET later == {j \in DOMAIN acc : compareKeys(keys[acc[j]], keys[x]) > 0}
        at    == IF later = {} THEN Len(acc) + 1
                 ELSE CHOOSE j \in later : \A k \in later : j <= k
    IN  SubSeq(acc, 1, at - 1) \o << x >> \o SubSeq(acc, at, Len(acc))

RECURSIVE sortLoop(_, _, _)
sortLoop(k, acc, keys) ==
    IF k > Len(keys) THEN acc
    ELSE sortLoop(k + 1, insertGame(acc, k, keys), keys)

\* A keyword that removes the games it does not occur in.
keepMatching(filtered, kw) ==
    IF kw # << >>
    THEN SelectSeq(filtered, LAMBDA d : partKey(d, kw) = 1)
    ELSE filtered

\* 3. the sort of updateDisplay
sortData(filtered, kw) ==
    IF kw # << >>
    THEN LET keys  == [i \in DOMAIN filtered |-> sortKey(filtered[i], kw)] \o << >>
             order == sortLoop(1, << >>, keys)
         IN  [i \in DOMAIN order |-> filtered[order[i]]]
    ELSE filtered

\* totalPagesOf with Math.floor(...) + 1 for Math.ceil.
totalPagesFloor(totalItems, size) == (totalItems \div size) + 1

\* Math.max(1, Math.ceil(totalItems / pageSize))
totalPagesOf(totalItems, size) ==
    LET ceil == (totalItems + size - 1) \div size
    IN  IF ceil > 1 THEN ceil ELSE 1

\* clampPage without its first line, the clamp to totalPages.
clampPageBelowOnly(page, totalPages) == IF page < 1 THEN 1 ELSE page

\* if (currentPage > totalPages) currentPage = totalPages;
\* if (currentPage < 1) currentPage = 1;
clampPage(page, totalPages) ==
    LET p == IF page > totalPages THEN totalPages ELSE page
    IN  IF p < 1 THEN 1 ELSE p

\* d => [d.pb, d.pw, d.gn, d.haDisplay, d.reDisplay, d.link]
rowOf(d) == << d.pb, d.pw, d.gn, d.haDisplay, d.reDisplay, d.link >>

\* pageRowsOf with start = currentPage * pageSize.
pageRowsShifted(displayData, page, size) ==
    LET start == page * size
        end   == start + size
        last  == IF end < Len(displayData) THEN end ELSE Len(displayData)
        part  == SubSeq(displayData, start + 1, last)
    IN  [i \in DOMAIN part |-> rowOf(part[i])]

\* pageRowsOf with end = start + pageSize - 1.
pageRowsShort(displayData, page, size) ==
    LET start == (page - 1) * size
        end   == start + size - 1
        last  == IF end < Len(displayData) THEN end ELSE Len(displayData)
        part  == SubSeq(displayData, start + 1, last)
    IN  [i \in DOMAIN part |-> rowOf(part[i])]

\* displayData.slice(start, end).map(...)
pageRowsOf(displayData, page, size) ==
    LET start == (page - 1) * size
        end   == start + size
        last  == IF end < Len(displayData) THEN end ELSE Len(displayData)
        part  == SubSeq(displayData, start + 1, last)
    IN  [i \in DOMAIN part |-> rowOf(part[i])]

\* 5. the pager of updateDisplay: pageInfo.textContent, prevBtn.disabled,
\* nextBtn.disabled, and what the call leaves behind.
renderPager(summary, displayData, size, totalPages, cur) ==
    [currentPage  |-> cur,
     summary      |-> summary,
     displayData  |-> displayData,
     pageRows     |-> pageRowsOf(displayData, cur, size),
     pageInfo     |-> [page |-> cur, totalPages |-> totalPages],
     prevDisabled |-> cur <= 1,
     nextDisabled |-> cur >= totalPages]

\* 4. the paging of updateDisplay, once totalPages is computed
renderClamped(summary, displayData, size, page, totalPages) ==
    renderPager(summary, displayData, size, totalPages,
                clampPage(page, totalPages))

\* 4. the paging of updateDisplay: const totalItems = displayData.length
renderPaging(summary, displayData, size, page) ==
    renderClamped(summary, displayData, size, page,
                  totalPagesOf(Len(displayData), size))

\* 2. and 3. of updateDisplay, on the filtered list
renderFiltered(filtered, groups, kw, size, page) ==
    renderPaging(summaryShown(summaryOf(filtered, groups)),
                 sortData(filtered, kw), size,
                 page)

\* const updateDisplay = () => { ... }: what one call leaves in currentPage
\* and renders, from the values of the controls.
updateDisplay(data, groups, input, haFilter, size, page) ==
    renderFiltered(filterData(data, haFilter, groups), groups,
                   toLowerCase(trim(input)), size, page)

\* ------------------------------------------------------------------------
\* State
\* ------------------------------------------------------------------------

\* Indexing runs of one behaviour, and calls of the vault that may fail.
MaxRuns == 2

MaxFaults == 1

Runs == 1..MaxRuns

VARIABLES
    FILTER_SZ,    \* the board size written into the program
    FUSEKI,       \* the configured pattern entries written into the program
    corpus,       \* the files and folders ROOT resolves to
    folders,      \* the folders of the note store
    notes,        \* the notes of the note store: path -> body
    run,          \* per run: position and locals of the indexing loop
    log,          \* history: the create / modify calls made on the note store,
                  \* each with its run, path, body, success and source file
    faults,       \* history: how many vault calls have failed
    allData,      \* the index the controls work on
    playerInput,  \* playerInput.value
    haSelect,     \* haSelect.value
    pageSize,
    currentPage,
    summary,      \* what summaryDiv shows: total, bWins, wWins, fStats
    displayData,  \* the sorted list of the last updateDisplay
    pageRows,     \* the rows of the rendered table
    pageInfo,     \* the "page / totalPages" label
    prevDisabled, \* prevBtn.disabled
    nextDisabled, \* nextBtn.disabled
    lastOp,       \* history: the last handler, the page before it, its size
    game,         \* the text of one game given to the pattern matcher
    moves,        \* its opening moves
    matched,      \* its matchedFusekiNames
    phase,        \* the matcher's position: "text", "moves" or "matched"
    pctN,         \* the wins given to the percentage helper
    pctD,         \* the total given to the percentage helper
    pctText,      \* what the helper returned, << >> before the call
    sgfFolderPath,  \* settings.sgfFolderPath
    enabledPlugins, \* app.plugins.enabledPlugins
    activeFile,     \* the file of the active Markdown view, or Null
    modals,         \* the messages of the ErrorModals opened so far
    cmdLog,         \* history: the vault calls the command has made
    cmdPc,          \* the command's position: "idle", "modify" or "done"
    walkStack,      \* stack of walkSgfFiles (positions in the corpus)
    walkResults,    \* results of walkSgfFiles
    walkPc,         \* its position: "idle", "loop" or "done"
    brText,         \* the text given to getBranchMoves
    brI,            \* its i, counted from 1
    brMove,         \* its currentMove
    brStack,        \* its stack
    brMoves,        \* its moves
    brPc,           \* its position: "idle", "loop" or "done"
    tagSrc,         \* the text given to tag
    tagOut,         \* what tag returned
    tagPc,          \* its position: "idle", "call" or "done"
    impRoot,        \* settings.sgfFolderPath, trimmed
    impDir,         \* what stat finds at settings.importSgfDirPath: "unset", "missing" or "dir"
    impSrc,         \* the entries of the import directory, by name
    impVault,       \* the entries of the vault, by path
    impFiles,       \* sgfFiles
    impK,           \* the position of the for loop in sgfFiles
    impData,        \* data
    impPath,        \* uniquePath
    impLog,         \* what became of each file the loop has left behind
    impModal,       \* the modal or notice the command opened
    impFaults,      \* how many calls of the command have failed
    impPc           \* the command's position

configVars == << FILTER_SZ, FUSEKI, corpus >>

storeVars == << folders, notes, log, faults >>

viewVars ==
    << allData, playerInput, haSelect, pageSize, currentPage, summary,
       displayData, pageRows, pageInfo, prevDisabled, nextDisabled, lastOp >>

matchVars == << game, moves, matched, phase >>

pctVars == << pctN, pctD, pctText >>

cmdVars ==
    << sgfFolderPath, enabledPlugins, activeFile, modals, cmdLog, cmdPc >>

walkVars == << walkStack, walkResults, walkPc >>

brVars == << brText, brI, brMove, brStack, brMoves, brPc >>

tagVars == << tagSrc, tagOut, tagPc >>

impVars == << impRoot, impDir, impSrc, impVault, impFiles, impK, impData, impPath, impLog, impModal, impFaults, impPc >>

toolVars ==
    << pctVars, cmdVars, walkVars, brVars, tagVars,
       impVars >>

coreVars == << configVars, storeVars, run, viewVars, matchVars >>

vars == << configVars, storeVars, run, viewVars, matchVars, toolVars >>

\* ------------------------------------------------------------------------
\* The indexing run: for (const f of files) { ... }
\* ------------------------------------------------------------------------

IdleRun ==
    [pc |-> "idle", files |-> << >>, i |-> 0, src |-> << >>,
     allData |-> << >>, kept |-> << >>, readFailed |-> {},
     storeFailed |-> {}]

\* The file the loop of run record rn is at.
curFile(rn) == corpus.nodes[rn.files[rn.i]]

\* The loop goes to its next file and calls vault.read on it, or ends.
nextFile(rn) ==
    IF rn.i + 1 > Len(rn.files)
    THEN [rn EXCEPT !.pc = "done", !.i = rn.i + 1, !.src = << >>]
    ELSE [rn EXCEPT !.pc = "read", !.i = rn.i + 1, !.src = << >>]

\* allData.push({ ... }) and the end of the loop body.
pushRecord(rn) ==
    nextFile([rn EXCEPT
        !.allData = Append(@, gameRecord(curFile(rn), rn.src, FUSEKI_GROUPS(FUSEKI))),
        !.kept = Append(@, rn.files[rn.i])])

\* let reviewFile = vault.getAbstractFileByPath(reviewPath); if (!reviewFile)
toReviewNote(rn, nts) ==
    IF reviewPath(curFile(rn)) \in DOMAIN nts
    THEN [rn EXCEPT !.pc = "readReview"]
    ELSE [rn EXCEPT !.pc = "createReview"]

\* toReview without the test on the number of branches.
toReviewAlways(rn, nts, fld) ==
    IF REVIEW_DIR \notin fld
    THEN [rn EXCEPT !.pc = "mkReviewDir"]
    ELSE toReviewNote(rn, nts)

\* const branchMoveNumbers = getBranchMoves(src.trim());
\* if (branchMoveNumbers.length > 0) { ... }
toReview(rn, nts, fld) ==
    IF Len(getBranchMoves(trim(rn.src))) > 0
    THEN IF REVIEW_DIR \notin fld
         THEN [rn EXCEPT !.pc = "mkReviewDir"]
         ELSE toReviewNote(rn, nts)
    ELSE pushRecord(rn)

\* let noteFile = vault.getAbstractFileByPath(notePath); if (!noteFile)
toNote(rn, nts) ==
    IF notePath(curFile(rn)) \in DOMAIN nts
    THEN [rn EXCEPT !.pc = "readNote"]
    ELSE [rn EXCEPT !.pc = "createNote"]

\* if (!vault.getAbstractFileByPath(NOTE_DIR)) await vault.createFolder(...)
toNoteDir(rn, nts, fld) ==
    IF NOTE_DIR \notin fld
    THEN [rn EXCEPT !.pc = "mkNoteDir"]
    ELSE toNote(rn, nts)

\* onRead with a failed read ending the loop instead of being caught.
onReadAborting(rn, ok, text, nts, fld) ==
    IF ok
    THEN IF szAccepted(text, FILTER_SZ) THEN toNoteDir([rn EXCEPT !.src = text], nts, fld)
         ELSE nextFile([rn EXCEPT !.src = text])
    ELSE [rn EXCEPT !.pc = "done", !.src = << >>,
                    !.readFailed = @ \cup {rn.files[rn.i]}]

\* try { src = await vault.read(f); } catch(e) { src = ""; } and the board
\* size filter: the run record once vault.read has settled (ok: it resolved
\* with text).
onRead(rn, ok, text, nts, fld) ==
    LET src == IF ok THEN text ELSE << >>
        rd  == [rn EXCEPT !.src = src,
                          !.readFailed = IF ok THEN @ ELSE @ \cup {rn.files[rn.i]}]
    IN  IF szAccepted(src, FILTER_SZ) THEN toNoteDir(rd, nts, fld)
        ELSE nextFile(rd)

\* A vault call may fail; MaxFaults bounds how many do in one behaviour.
Outcome(ok) ==
    /\ ok \in BOOLEAN
    /\ ok \/ faults < MaxFaults
    /\ faults' = IF ok THEN faults ELSE faults + 1

\* A rejected call on the note store that ends the run.
uncaught(rn, ok, next) ==
    IF ok THEN next
    ELSE [rn EXCEPT !.pc = "done", !.storeFailed = @ \cup {rn.files[rn.i]}]

\* .catch(() => {}) after a call on the note store: the run goes on as next
\* whether the call failed or not (storeFailed: the files it failed for).
caught(rn, ok, next) ==
    IF ok THEN next
    ELSE [next EXCEPT !.storeFailed = @ \cup {rn.files[rn.i]}]

\* const files = walkSgfFiles(ROOT); const allData = []; and the first
\* vault.read.  Run r starts once the run before it has ended.
Start(r) ==
    /\ run[r].pc = "idle"
    /\ IF r = 1 THEN TRUE ELSE run[r - 1].pc = "done"
    /\ run' = [run EXCEPT ![r] =
                  nextFile([IdleRun EXCEPT !.files = walkSgfFiles(corpus)])]
    /\ UNCHANGED << toolVars, configVars, storeVars, viewVars, matchVars >>

\* await vault.read(f) settles.
ReadDone(r) ==
    /\ run[r].pc = "read"
    /\ \E ok \in BOOLEAN :
          /\ Outcome(ok)
          /\ run' = [run EXCEPT ![r] =
                        onRead(run[r], ok, curFile(run[r]).text, notes, folders)]
    /\ UNCHANGED << toolVars, configVars, folders, notes, log, viewVars, matchVars >>

\* await vault.createFolder(NOTE_DIR).catch(() => {}) settles.
MkNoteDirDone(r) ==
    /\ run[r].pc = "mkNoteDir"
    /\ \E ok \in BOOLEAN :
          /\ Outcome(ok)
          /\ folders' = IF ok THEN folders \cup {NOTE_DIR} ELSE folders
          /\ run' = [run EXCEPT ![r] =
                        caught(run[r], ok, toNote(run[r], notes))]
    /\ UNCHANGED << toolVars, configVars, notes, log, viewVars, matchVars >>

\* vault.create(path, body) resolves: the call did not fail for a reason
\* of its own, the folder dir of path exists and nothing is at path yet
\* ("File already exists" otherwise).
created(nts, fld, dir, path, ok) ==
    ok /\ dir \in fld /\ path \notin DOMAIN nts

\* The notes once vault.create(path, body) has settled.
createIn(nts, path, body, ok) ==
    IF ok THEN (path :> body) @@ nts ELSE nts

\* vault.modify(file, body) settles.
modifyIn(nts, path, body, ok) ==
    IF ok /\ path \in DOMAIN nts THEN [nts EXCEPT ![path] = body] ELSE nts

\* await vault.read(noteFile).catch(() => "") settles.
readIn(nts, path, ok) ==
    IF ok /\ path \in DOMAIN nts THEN nts[path] ELSE << >>

\* await vault.create(notePath, noteContent).catch(() => {}) settles.
CreateNoteDone(r) ==
    /\ run[r].pc = "createNote"
    /\ \E ok \in BOOLEAN :
          LET path == notePath(curFile(run[r]))
              made == created(notes, folders, NOTE_DIR, path, ok)
              nts  == createIn(notes, path, noteContent(run[r].src), made)
          IN  /\ Outcome(ok)
              /\ notes' = nts
              /\ log' = Append(log, [run |-> r, op |-> "create", path |-> path,
                                     done |-> made,
                                     file |-> run[r].files[run[r].i],
                                     body |-> noteContent(run[r].src)])
              /\ run' = [run EXCEPT ![r] =
                            caught(run[r], made, toReview(run[r], nts, folders))]
    /\ UNCHANGED << toolVars, configVars, folders, viewVars, matchVars >>

\* const existingContent = await vault.read(noteFile).catch(() => "") settles
\* and is compared with noteContent.
ReadNoteDone(r) ==
    /\ run[r].pc = "readNote"
    /\ \E ok \in BOOLEAN :
          LET existingContent == readIn(notes, notePath(curFile(run[r])), ok)
          IN  /\ Outcome(ok)
              /\ run' = [run EXCEPT ![r] =
                            caught(run[r], ok,
                                IF existingContent # noteContent(run[r].src)
                                THEN [run[r] EXCEPT !.pc = "modifyNote"]
                                ELSE toReview(run[r], notes, folders))]
    /\ UNCHANGED << toolVars, configVars, folders, notes, log, viewVars, matchVars >>

\* await vault.modify(noteFile, noteContent).catch(() => {}) settles.
ModifyNoteDone(r) ==
    /\ run[r].pc = "modifyNote"
    /\ \E ok \in BOOLEAN :
          LET path == notePath(curFile(run[r]))
              nts  == modifyIn(notes, path, noteContent(run[r].src), ok)
          IN  /\ Outcome(ok)
              /\ notes' = nts
              /\ log' = Append(log, [run |-> r, op |-> "modify", path |-> path,
                                     done |-> ok,
                                     file |-> run[r].files[run[r].i],
                                     body |-> noteContent(run[r].src)])
              /\ run' = [run EXCEPT ![r] =
                            caught(run[r], ok, toReview(run[r], nts, folders))]
    /\ UNCHANGED << toolVars, configVars, folders, viewVars, matchVars >>

\* await vault.createFolder(REVIEW_DIR).catch(() => {}) settles.
MkReviewDirDone(r) ==
    /\ run[r].pc = "mkReviewDir"
    /\ \E ok \in BOOLEAN :
          /\ Outcome(ok)
          /\ folders' = IF ok THEN folders \cup {REVIEW_DIR} ELSE folders
          /\ run' = [run EXCEPT ![r] =
                        caught(run[r], ok, toReviewNote(run[r], notes))]
    /\ UNCHANGED << toolVars, configVars, notes, log, viewVars, matchVars >>

\* The review note body of the file run record rn is at.
curReview(rn) ==
    reviewContent(curFile(rn), getBranchMoves(trim(rn.src)))

\* await vault.create(reviewPath, reviewContent).catch(() => {}) settles.
CreateReviewDone(r) ==
    /\ run[r].pc = "createReview"
    /\ \E ok \in BOOLEAN :
          LET path == reviewPath(curFile(run[r]))
              made == created(notes, folders, REVIEW_DIR, path, ok)
              nts  == createIn(notes, path, curReview(run[r]), made)
          IN  /\ Outcome(ok)
              /\ notes' = nts
              /\ log' = Append(log, [run |-> r, op |-> "create", path |-> path,
                                     done |-> made,
                                     file |-> run[r].files[run[r].i],
                                     body |-> curReview(run[r])])
              /\ run' = [run EXCEPT ![r] =
                            caught(run[r], made, pushRecord(run[r]))]
    /\ UNCHANGED << toolVars, configVars, folders, viewVars, matchVars >>

\* const existingReviewContent = await vault.read(reviewFile).catch(...)
ReadReviewDone(r) ==
    /\ run[r].pc = "readReview"
    /\ \E ok \in BOOLEAN :
          LET existing == readIn(notes, reviewPath(curFile(run[r])), ok)
          IN  /\ Outcome(ok)
              /\ run' = [run EXCEPT ![r] =
                            caught(run[r], ok,
                                IF existing # curReview(run[r])
                                THEN [run[r] EXCEPT !.pc = "modifyReview"]
                                ELSE pushRecord(run[r]))]
    /\ UNCHANGED << toolVars, configVars, folders, notes, log, viewVars, matchVars >>

\* await vault.modify(reviewFile, reviewContent).catch(() => {}) settles.
ModifyReviewDone(r) ==
    /\ run[r].pc = "modifyReview"
    /\ \E ok \in BOOLEAN :
          LET path == reviewPath(curFile(run[r]))
              nts  == modifyIn(notes, path, curReview(run[r]), ok)
          IN  /\ Outcome(ok)
              /\ notes' = nts
              /\ log' = Append(log, [run |-> r, op |-> "modify", path |-> path,
                                     done |-> ok,
                                     file |-> run[r].files[run[r].i],
                                     body |-> curReview(run[r])])
              /\ run' = [run EXCEPT ![r] =
                            caught(run[r], ok, pushRecord(run[r]))]
    /\ UNCHANGED << toolVars, configVars, folders, viewVars, matchVars >>

\* ------------------------------------------------------------------------
\* The controls: the handlers registered with addEventListener
\* ------------------------------------------------------------------------

\* The controls are set to input, haFilter and size, currentPage to page,
\* and updateDisplay() runs.
Render(input, haFilter, size, page) ==
    \E out \in {updateDisplay(allData, FUSEKI_GROUPS(FUSEKI), input, haFilter,
                             size, page)} :
        /\ playerInput' = input
        /\ haSelect' = haFilter
        /\ pageSize' = size
        /\ currentPage' = out.currentPage
        /\ summary' = out.summary
        /\ displayData' = out.displayData
        /\ pageRows' = out.pageRows
        /\ pageInfo' = out.pageInfo
        /\ prevDisabled' = out.prevDisabled
        /\ nextDisabled' = out.nextDisabled

\* The values a user types into playerInput in the model.
Keywords ==
    { << >>,
      << "L", "e", "e" >>,
      << " ", "C", "H", "O", " " >>,
      << "k" >> }

\* playerInput "input": () => { currentPage = 1; updateDisplay(); }
setKeyword(k) ==
    /\ Render(k, haSelect, pageSize, 1)
    /\ lastOp' = [op |-> "setKeyword", page |-> currentPage, size |-> pageSize]
    /\ UNCHANGED << toolVars, configVars, storeVars, run, allData, matchVars >>

\* haSelect "change": () => { currentPage = 1; updateDisplay(); }
setHandicapFilter(h) ==
    /\ Render(playerInput, h, pageSize, 1)
    /\ lastOp' = [op |-> "setHandicapFilter", page |-> currentPage,
                  size |-> pageSize]
    /\ UNCHANGED << toolVars, configVars, storeVars, run, allData, matchVars >>

\* setPageSize without currentPage = 1.
setPageSizeSamePage(n) ==
    /\ Render(playerInput, haSelect, n, currentPage)
    /\ lastOp' = [op |-> "setPageSize", page |-> currentPage, size |-> n]
    /\ UNCHANGED << toolVars, configVars, storeVars, run, allData, matchVars >>

\* sizeSelect "change": () => { pageSize = parseInt(sizeSelect.value, 10)
\* || 10; currentPage = 1; updateDisplay(); }
setPageSize(n) ==
    /\ Render(playerInput, haSelect, n, 1)
    /\ lastOp' = [op |-> "setPageSize", page |-> currentPage, size |-> n]
    /\ UNCHANGED << toolVars, configVars, storeVars, run, allData, matchVars >>

\* prevBtn "click": () => { if (currentPage > 1) { currentPage--;
\* updateDisplay(); } }
prevPage ==
    /\ IF currentPage > 1
       THEN Render(playerInput, haSelect, pageSize, currentPage - 1)
       ELSE UNCHANGED << playerInput, haSelect, pageSize, currentPage, summary,
                         displayData, pageRows, pageInfo, prevDisabled,
                         nextDisabled >>
    /\ lastOp' = [op |-> "prevPage", page |-> currentPage, size |-> pageSize]
    /\ UNCHANGED << toolVars, configVars, storeVars, run, allData, matchVars >>

\* nextPage with currentPage += 2.
nextPageSkipping ==
    /\ Render(playerInput, haSelect, pageSize, currentPage + 2)
    /\ lastOp' = [op |-> "nextPage", page |-> currentPage, size |-> pageSize]
    /\ UNCHANGED << toolVars, configVars, storeVars, run, allData, matchVars >>

\* nextBtn "click": () => { currentPage++; updateDisplay(); }
nextPage ==
    /\ Render(playerInput, haSelect, pageSize, currentPage + 1)
    /\ lastOp' = [op |-> "nextPage", page |-> currentPage, size |-> pageSize]
    /\ UNCHANGED << toolVars, configVars, storeVars, run, allData, matchVars >>

\* ------------------------------------------------------------------------
\* The pattern matcher on one game
\* ------------------------------------------------------------------------

\* The opening moves of game are extracted.
ExtractMoves ==
    /\ phase = "text"
    /\ moves' = openingMoves(game)
    /\ phase' = "moves"
    /\ UNCHANGED << toolVars, configVars, storeVars, run, viewVars, game, matched >>

\* The patterns are matched against the opening moves.
MatchPatterns ==
    /\ phase = "moves"
    /\ matched' = matchedFusekiNames(FUSEKI_GROUPS(FUSEKI), moves)
    /\ phase' = "matched"
    /\ UNCHANGED << toolVars, configVars, storeVars, run, viewVars, game, moves >>

\* ------------------------------------------------------------------------
\* Configurations and inputs of the model
\* ------------------------------------------------------------------------

\* settings.boardSize: 9 | 13 | 19
BoardSizes == {9, 13, 19}

FusekiNone == << >>

FusekiStar == << [x |-> 4, y |-> 4, name |-> "hoshi"] >>

\* Two entries of one name, an entry without name, an entry that is not valid.
FusekiMerged ==
    << [x |-> 4, y |-> 4, name |-> "hoshi"],
       [x |-> 16, y |-> 16, name |-> "hoshi"],
       [x |-> 16, y |-> 4, name |-> ""],
       [x |-> 0, y |-> 3, name |-> "bad"] >>

\* Entries of which none is valid.
FusekiInvalid == << [x |-> 0, y |-> 0, name |-> "bad"] >>

\* Two patterns on the same point.
FusekiTwin ==
    << [x |-> 4, y |-> 4, name |-> "a"],
       [x |-> 4, y |-> 4, name |-> "b"] >>

FusekiConfigs ==
    {FusekiNone, FusekiStar, FusekiMerged, FusekiInvalid, FusekiTwin}

\* The pattern configurations the controls are checked under.
ViewFuseki == {FusekiNone, FusekiMerged, FusekiInvalid}

\* The largest corpus the controls are checked on.
MaxGames == 27

GameTexts == << TextA, TextB, TextG, TextD, TextC >>

\* n files g1.sgf .. gn.sgf under the root, with the texts of GameTexts in
\* turn.
ViewCorpus(n) ==
    [root |-> 1,
     nodes |-> << Folder([k \in 1..n |-> k + 1]) >>
               \o [k \in 1..n |->
                      File("g" \o ToString(k), ExtSgf,
                           GameTexts[((k - 1) % Len(GameTexts)) + 1])]]

ViewSizes == {0, MaxGames \div 4, MaxGames}

\* The index a run over corpus c builds when every vault call succeeds,
\* from file k of the scan on.
RECURSIVE indexFrom(_, _, _, _)
indexFrom(c, files, k, acc) ==
    IF k > Len(files) THEN acc
    ELSE LET f == c.nodes[files[k]]
         IN  indexFrom(c, files, k + 1,
                       IF szAccepted(f.text, FILTER_SZ)
                       THEN Append(acc, gameRecord(f, f.text, FUSEKI_GROUPS(FUSEKI)))
                       ELSE acc)

indexAll(c) == indexFrom(c, walkSgfFiles(c), 1, << >>)

\* The longest opening given to the matcher.
MaxMoves == 3

\* The pieces texts are made of: a stone, a pass, a setup node and a
\* comment that holds markers.
StoneB == << ";", "B", "[", "d", "d", "]" >>

PassW == << ";", "W", "[", "]" >>

SetupAB == << ";", "A", "B", "[", "d", "d", "]" >>

CommentC == << "C", "[", "(", ";", "]" >>

\* The pieces of the sequence q put one after the other.
RECURSIVE Flatten(_)
Flatten(q) == IF q = << >> THEN << >> ELSE Head(q) \o Flatten(Tail(q))

SeqsUpTo(S, n) == UNION {[1..k -> S] : k \in 0..n}

Points == { << 4, 4 >>, << 16, 16 >>, << 16, 4 >> }

Stones == {[x |-> p[1], y |-> p[2], color |-> c] : p \in Points, c \in {"B", "W"}}

MoveLists == UNION {[1..n -> Stones] : n \in 0..MaxMoves}

\* The SGF text of a list of stones: (;B[dd];W[pp]...)
RECURSIVE sgfNodes(_)
sgfNodes(ms) ==
    IF ms = << >> THEN << >>
    ELSE << ";", Head(ms).color, "[", Lower[Head(ms).x], Lower[Head(ms).y], "]" >>
            \o sgfNodes(Tail(ms))

sgfOf(ms) == << "(" >> \o sgfNodes(ms) \o << ")" >>

\* n moves that alternate black and white on the point (3,3).
Filler(n) ==
    [k \in 1..n |-> [x |-> 3, y |-> 3, color |-> IF k % 2 = 1 THEN "B" ELSE "W"]]

\* Nodes the extractor has to pass over: a value of one letter, of upper
\* case letters, of three letters.
OneLetter == << ";", "W", "[", "d", "]" >>

UpperCase == << ";", "B", "[", "D", "D", "]" >>

ThreeLetters == << ";", "W", "[", "p", "p", "p", "]" >>

StoneW == << ";", "W", "[", "p", "q", "]" >>

OddNodes == {StoneB, StoneW, PassW, SetupAB, OneLetter, UpperCase, ThreeLetters}

\* Texts of up to MaxMoves such nodes, and longer ones: a pass and a value
\* of upper case letters before each of FUSEKI_MOVES_LIMIT + 1 stones.
RECURSIVE Padded(_)
Padded(ms) ==
    IF ms = << >> THEN << >>
    ELSE PassW \o UpperCase \o sgfNodes(<< Head(ms) >>) \o Padded(Tail(ms))

OddGames ==
    {Flatten(q) : q \in SeqsUpTo(OddNodes, MaxMoves)}
        \cup {Padded(Filler(n)) :
                n \in {FUSEKI_MOVES_LIMIT - 1, FUSEKI_MOVES_LIMIT + 1}}

\* Games longer than the opening: a stone on (4,4) as the last move within
\* FUSEKI_MOVES_LIMIT, and as the first move beyond it.
LongGames ==
    {Filler(FUSEKI_MOVES_LIMIT - 1) \o << [x |-> 4, y |-> 4, color |-> c] >> :
        c \in {"B", "W"}}
    \cup {Filler(FUSEKI_MOVES_LIMIT) \o << [x |-> 4, y |-> 4, color |-> c] >> :
        c \in {"B", "W"}}

\* ------------------------------------------------------------------------
\* Specifications
\* ------------------------------------------------------------------------

StoreInit ==
    /\ folders = {}
    /\ notes = [x \in {} |-> << >>]
    /\ log = << >>
    /\ faults = 0
    /\ run = [r \in Runs |-> IdleRun]

\* The controls as the program builds them, and the first updateDisplay().
ViewInit ==
    \E out \in {updateDisplay(allData, FUSEKI_GROUPS(FUSEKI), << >>, HaAll, 10, 1)} :
        /\ playerInput = << >>
        /\ haSelect = HaAll
        /\ pageSize = 10
        /\ currentPage = out.currentPage
        /\ summary = out.summary
        /\ displayData = out.displayData
        /\ pageRows = out.pageRows
        /\ pageInfo = out.pageInfo
        /\ prevDisabled = out.prevDisabled
        /\ nextDisabled = out.nextDisabled
        /\ lastOp = [op |-> "init", page |-> 1, size |-> 10]

MatchIdle ==
    /\ game = << >>
    /\ moves = << >>
    /\ matched = << >>
    /\ phase = "idle"

PctIdle ==
    /\ pctN = 0
    /\ pctD = 0
    /\ pctText = << >>

\* app.plugins.enabledPlugins: a set of plugin ids, undefined, or a value
\* whose use throws.
PluginSet(ids) == [state |-> "set", ids |-> ids]

NoPluginInfo == {[state |-> "undefined", ids |-> {}],
                 [state |-> "throws", ids |-> {}]}

PluginStates ==
    {PluginSet(ids) : ids \in SUBSET {"goboard-viewer", "dataview"}}
        \cup NoPluginInfo

\* mdView?.file: no active Markdown view, or its file with a body.
NoFile == [exists |-> FALSE, body |-> << >>]

MemoFile == [exists |-> TRUE, body |-> << "memo" >>]

CmdIdle ==
    /\ sgfFolderPath = << "g", "o" >>
    /\ enabledPlugins = PluginSet({"goboard-viewer", "dataview"})
    /\ activeFile = NoFile
    /\ modals = << >>
    /\ cmdLog = << >>
    /\ cmdPc = "idle"

WalkIdle ==
    /\ walkStack = << >>
    /\ walkResults = << >>
    /\ walkPc = "idle"

BranchIdle ==
    /\ brText = << >>
    /\ brI = 1
    /\ brMove = 0
    /\ brStack = << >>
    /\ brMoves = << >>
    /\ brPc = "idle"

TagIdle ==
    /\ tagSrc = << >>
    /\ tagOut = << >>
    /\ tagPc = "idle"

ImportIdle ==
    /\ impRoot = << >>
    /\ impDir = "unset"
    /\ impSrc = << >>
    /\ impVault = << >>
    /\ impFiles = << >>
    /\ impK = 1
    /\ impData = << >>
    /\ impPath = << >>
    /\ impLog = << >>
    /\ impModal = "none"
    /\ impFaults = 0
    /\ impPc = "idle"

\* The indexing runs over a corpus, the note store empty at first.
Init ==
    /\ FILTER_SZ \in BoardSizes
    /\ FUSEKI \in {FusekiNone, FusekiStar}
    /\ corpus \in Corpora \cup NoFolders
    /\ StoreInit
    /\ allData = << >>
    /\ ViewInit
    /\ PctIdle
    /\ CmdIdle
    /\ WalkIdle
    /\ BranchIdle
    /\ MatchIdle
    /\ TagIdle
    /\ ImportIdle

Next ==
    \E r \in Runs :
        \/ Start(r)
        \/ ReadDone(r)
        \/ MkNoteDirDone(r)
        \/ CreateNoteDone(r)
        \/ ReadNoteDone(r)
        \/ ModifyNoteDone(r)
        \/ MkReviewDirDone(r)
        \/ CreateReviewDone(r)
        \/ ReadReviewDone(r)
        \/ ModifyReviewDone(r)

Spec == Init /\ [][Next]_vars

\* ------------------------------------------------------------------------
\* Two indexing runs at once
\* ------------------------------------------------------------------------

\* The script runs again while its first run is still waiting: run r starts
\* without waiting for the other run.
StartOverlapping(r) ==
    /\ r \in {1, 2}
    /\ run[r].pc = "idle"
    /\ run' = [run EXCEPT ![r] =
                  nextFile([IdleRun EXCEPT !.files = walkSgfFiles(corpus)])]
    /\ UNCHANGED << toolVars, configVars, storeVars, viewVars, matchVars >>

\* The files of corpus c.
FilesOf(c) == {f \in DOMAIN c.nodes : c.nodes[f].kind = "file"}

\* No two files of corpus c have one basename.
DistinctBasenames(c) ==
    \A f \in FilesOf(c) : \A g \in FilesOf(c) :
        c.nodes[f].basename = c.nodes[g].basename => f = g

\* The notes an earlier version of the corpus has left: a game note and a
\* review note for every file, with another body.
OlderNotes(c) ==
    [p \in {notePath(c.nodes[f]) : f \in FilesOf(c)}
            \cup {reviewPath(c.nodes[f]) : f \in FilesOf(c)}
        |-> << "older note" >>]

\* Both runs over one corpus of distinct basenames, the note store empty or
\* holding older notes, and no call failing for a reason of its own.
InitOverlap ==
    /\ FILTER_SZ \in {13, 19}
    /\ FUSEKI = FusekiNone
    /\ corpus \in {c \in Corpora : DistinctBasenames(c)}
    /\ \/ folders = {} /\ notes = [x \in {} |-> << >>]
       \/ folders = {NOTE_DIR, REVIEW_DIR} /\ notes = OlderNotes(corpus)
    /\ log = << >>
    /\ faults = MaxFaults
    /\ run = [r \in Runs |-> IdleRun]
    /\ allData = << >>
    /\ ViewInit
    /\ PctIdle
    /\ CmdIdle
    /\ WalkIdle
    /\ BranchIdle
    /\ MatchIdle
    /\ TagIdle
    /\ ImportIdle

NextOverlap ==
    \E r \in {1, 2} :
        \/ StartOverlapping(r)
        \/ ReadDone(r)
        \/ MkNoteDirDone(r)
        \/ CreateNoteDone(r)
        \/ ReadNoteDone(r)
        \/ ModifyNoteDone(r)
        \/ MkReviewDirDone(r)
        \/ CreateReviewDone(r)
        \/ ReadReviewDone(r)
        \/ ModifyReviewDone(r)

SpecOverlap == InitOverlap /\ [][NextOverlap]_vars

\* The controls over the index of a finished run.
InitView ==
    /\ FILTER_SZ \in {13, 19}
    /\ FUSEKI \in ViewFuseki
    /\ corpus \in {ViewCorpus(n) : n \in ViewSizes}
    /\ StoreInit
    /\ allData = indexAll(corpus)
    /\ ViewInit
    /\ PctIdle
    /\ CmdIdle
    /\ WalkIdle
    /\ BranchIdle
    /\ MatchIdle
    /\ TagIdle
    /\ ImportIdle

NextView ==
    \/ \E k \in Keywords : setKeyword(k)
    \/ \E h \in haOptions(allData) : setHandicapFilter(h)
    \/ \E n \in PageSizes : setPageSize(n)
    \/ prevPage
    \/ nextPage

SpecView == InitView /\ [][NextView]_vars

\* The matcher on one game at a time.
InitMatch ==
    /\ FILTER_SZ = 19
    /\ FUSEKI \in FusekiConfigs
    /\ corpus = ViewCorpus(0)
    /\ StoreInit
    /\ allData = << >>
    /\ ViewInit
    /\ PctIdle
    /\ CmdIdle
    /\ WalkIdle
    /\ BranchIdle
    /\ game \in {sgfOf(ms) : ms \in MoveLists \cup LongGames} \cup OddGames
    /\ moves = << >>
    /\ matched = << >>
    /\ phase = "text"
    /\ TagIdle
    /\ ImportIdle

NextMatch == ExtractMoves \/ MatchPatterns

SpecMatch == InitMatch /\ [][NextMatch]_vars

\* ------------------------------------------------------------------------
\* The command Create Show Data
\* ------------------------------------------------------------------------

\* The values of settings.sgfFolderPath.
FolderPaths == {<< >>, << " ", " " >>, << "g", "o" >>, << " ", "g", "o" >>}

\* const content = [...].join("\n"): the script with ROOT, FILTER_SZ and
\* FUSEKI written into it.
scriptContent(folderPath, boardSize, fusekiPairs) ==
    << "dataviewjs", folderPath, boardSize, fusekiPairs >>

\* The modals of the dependency check (step 0), in the order they open.
pluginModals(enabled) ==
    IF enabled.state = "throws" THEN << >>
    ELSE (IF enabled.state = "set" /\ "goboard-viewer" \in enabled.ids
          THEN << >> ELSE << "GoBoardViewerDisabled" >>)
         \o (IF enabled.state = "set" /\ "dataview" \in enabled.ids
             THEN << >> ELSE << "DataviewDisabled" >>)

\* if (!isDVEnabled) { ...; return; }
pluginsStop(enabled) ==
    /\ enabled.state # "throws"
    /\ ~(enabled.state = "set" /\ "dataview" \in enabled.ids)

\* abstract instanceof TFolder
isTFolder(c) == c.root # 0 /\ c.nodes[c.root].kind = "folder"

\* A folder check that stops on an unset path only.
folderModalsUnsetOnly(folderPath, c) ==
    IF folderPath = << >> THEN << "FolderUnset" >> ELSE << >>

\* The modal of the folder check (step 1): none when the folder exists.
folderModals(folderPath, c) ==
    IF folderPath = << >> THEN << "FolderUnset" >>
    ELSE IF ~isTFolder(c) THEN << "FolderNotFound" >>
    ELSE << >>

\* callback: async () => { ... } up to its return or to its await.
CreateShowData ==
    /\ cmdPc = "idle"
    /\ LET folderPath == trim(sgfFolderPath)
           opened     == pluginModals(enabledPlugins)
           checked    == folderModals(folderPath, corpus)
       IN  IF pluginsStop(enabledPlugins)
           THEN /\ modals' = modals \o opened
                /\ cmdPc' = "done"
                /\ cmdLog' = cmdLog
           ELSE IF checked # << >>
           THEN /\ modals' = modals \o opened \o checked
                /\ cmdPc' = "done"
                /\ cmdLog' = cmdLog
           ELSE /\ modals' = modals \o opened
                /\ IF activeFile.exists
                   THEN /\ cmdPc' = "modify"
                        /\ cmdLog' = Append(cmdLog,
                               [op |-> "modify",
                                data |-> scriptContent(folderPath, FILTER_SZ,
                                                       FUSEKI)])
                   ELSE /\ cmdPc' = "done"
                        /\ cmdLog' = cmdLog
    /\ UNCHANGED << sgfFolderPath, enabledPlugins, activeFile, pctVars,
                    walkVars, brVars, tagVars, impVars, coreVars >>

\* await this.app.vault.modify(file, content)
ModifyActiveDone ==
    /\ cmdPc = "modify"
    /\ \E ok \in BOOLEAN :
          activeFile' = IF ok
                        THEN [activeFile EXCEPT
                                 !.body = cmdLog[Len(cmdLog)].data]
                        ELSE activeFile
    /\ cmdPc' = "done"
    /\ UNCHANGED << sgfFolderPath, enabledPlugins, modals, cmdLog, pctVars,
                    walkVars, brVars, tagVars, impVars, coreVars >>

InitCmd ==
    /\ FILTER_SZ \in BoardSizes
    /\ FUSEKI \in {FusekiNone, FusekiStar}
    /\ corpus \in Corpora \cup NoFolders
    /\ StoreInit
    /\ allData = << >>
    /\ ViewInit
    /\ MatchIdle
    /\ PctIdle
    /\ sgfFolderPath \in FolderPaths
    /\ enabledPlugins \in PluginStates
    /\ activeFile \in {NoFile, MemoFile}
    /\ modals = << >>
    /\ cmdLog = << >>
    /\ cmdPc = "idle"
    /\ WalkIdle
    /\ BranchIdle
    /\ TagIdle
    /\ ImportIdle

NextCmd == CreateShowData \/ ModifyActiveDone

SpecCmd == InitCmd /\ [][NextCmd]_vars

\* The percentage helper on one pair of counts at a time.
MaxTotal == 40

\* p2.textContent = ... pct(bWins, total) ...: one call of the helper.
ShowRate ==
    /\ pctText = << >>
    /\ pctText' = pct(pctN, pctD)
    /\ UNCHANGED << pctN, pctD, cmdVars, walkVars, brVars, tagVars, impVars, coreVars >>

InitPct ==
    /\ FILTER_SZ = 19
    /\ FUSEKI = FusekiNone
    /\ corpus = ViewCorpus(0)
    /\ StoreInit
    /\ allData = << >>
    /\ ViewInit
    /\ MatchIdle
    /\ pctD \in 0..MaxTotal
    /\ pctN \in 0..pctD
    /\ pctText = << >>
    /\ CmdIdle
    /\ WalkIdle
    /\ BranchIdle
    /\ TagIdle
    /\ ImportIdle

NextPct == ShowRate

SpecPct == InitPct /\ [][NextPct]_vars

\* ------------------------------------------------------------------------
\* walkSgfFiles step by step over folder trees
\* ------------------------------------------------------------------------

MaxNodes == 4

\* The members of the set S of numbers in rising order.
RECURSIVE SortedSeq(_)
SortedSeq(S) ==
    IF S = {} THEN << >>
    ELSE LET m == CHOOSE x \in S : \A y \in S : x <= y
         IN  << m >> \o SortedSeq(S \ {m})

\* What an entry is: a folder, or a file with one of these extensions.
DirMark == << "/" >>

EntryTypes == {DirMark, ExtSgf, ExtSGF, ExtMd}

\* The trees over the entries 1..MaxNodes: entry 1 is a folder, every other
\* entry lies in a folder of smaller number.
TreeParents ==
    {par \in [2..MaxNodes -> 1..(MaxNodes - 1)] : \A i \in 2..MaxNodes : par[i] < i}

TreeTypes == [2..MaxNodes -> EntryTypes]

TreeEntry(par, typ, i) ==
    IF i = 1 \/ typ[i] = DirMark
    THEN Folder(SortedSeq({j \in 2..MaxNodes : par[j] = i}))
    ELSE File("g", typ[i], << >>)

\* The vault seen from ROOT when ROOT resolves to the folder root.
TreeCorpus(par, typ, root) ==
    [root |-> root, nodes |-> [i \in 1..MaxNodes |-> TreeEntry(par, typ, i)]]

TreeShapes ==
    {sh \in [par : TreeParents, typ : TreeTypes] :
        \A i \in 2..MaxNodes : sh.par[i] = 1 \/ sh.typ[sh.par[i]] = DirMark}

\* ROOT is entry 1 or, when that is a folder, entry 2.
ScanTrees ==
    {c \in {TreeCorpus(sh.par, sh.typ, r) : sh \in TreeShapes, r \in 1..2} :
        c.nodes[c.root].kind = "folder"}

\* const root = vault.getAbstractFileByPath(folderPath); const results = [];
\* if(!root) return results; const stack = [root];
WalkStart ==
    /\ walkPc = "idle"
    /\ walkResults' = << >>
    /\ IF corpus.root = 0
       THEN walkStack' = << >> /\ walkPc' = "done"
       ELSE walkStack' = << corpus.root >> /\ walkPc' = "loop"
    /\ UNCHANGED << pctVars, cmdVars, brVars, tagVars, impVars, coreVars >>

\* while(stack.length){ const cur = stack.pop(); ... }: one round.
WalkRound ==
    /\ walkPc = "loop"
    /\ walkStack # << >>
    /\ \E out \in {walkStep(corpus, walkStack, walkResults)} :
          /\ walkStack' = out.stack
          /\ walkResults' = out.results
    /\ UNCHANGED << walkPc, pctVars, cmdVars, brVars, tagVars, impVars, coreVars >>

\* The loop ends on the empty stack: return results.
WalkReturn ==
    /\ walkPc = "loop"
    /\ walkStack = << >>
    /\ walkPc' = "done"
    /\ UNCHANGED << walkStack, walkResults, pctVars, cmdVars, brVars,
                    tagVars, impVars, coreVars >>

InitScan ==
    /\ FILTER_SZ = 19
    /\ FUSEKI = FusekiNone
    /\ corpus \in ScanTrees \cup NoFolders \cup Corpora
    /\ StoreInit
    /\ allData = << >>
    /\ ViewInit
    /\ MatchIdle
    /\ PctIdle
    /\ CmdIdle
    /\ WalkIdle
    /\ BranchIdle
    /\ TagIdle
    /\ ImportIdle

NextScan == WalkStart \/ WalkRound \/ WalkReturn

\* The script runs to its end: no step of the traversal is put off forever.
SpecScan == InitScan /\ [][NextScan]_vars /\ WF_vars(NextScan)

\* ------------------------------------------------------------------------
\* getBranchMoves round by round over game texts
\* ------------------------------------------------------------------------

MaxChunks == 3

MaxLine == 2

\* The pieces of the short texts: with the two markers and a bracket that
\* is never closed.
Chunks == {<< "(" >>, << ")" >>, StoneB, PassW, SetupAB, CommentC, << "[" >>}

\* Every text of up to MaxChunks pieces.
ShortTexts == {Flatten(q) : q \in SeqsUpTo(Chunks, MaxChunks)}

\* A game with a main line and two variations after it, each a line of up
\* to MaxLine stones and passes.
Lines == {Flatten(q) : q \in SeqsUpTo({StoneB, PassW}, MaxLine)}

TreeTexts ==
    {<< "(" >> \o m \o << "(" >> \o v \o << ")", "(" >> \o w \o << ")", ")" >> :
        m \in Lines, v \in Lines, w \in Lines}

\* while (i < sgf.length) { ... }: one round.
BranchRound ==
    /\ brPc = "loop"
    /\ brI <= Len(brText)
    /\ \E n \in {branchStep(brText, brI, brMove, brStack, brMoves)} :
          /\ brI' = n.i
          /\ brMove' = n.currentMove
          /\ brStack' = n.stack
          /\ brMoves' = n.moves
    /\ UNCHANGED << brText, brPc, pctVars, cmdVars, walkVars, tagVars, impVars, coreVars >>

\* The loop ends at the end of the text: return moves.
BranchReturn ==
    /\ brPc = "loop"
    /\ brI > Len(brText)
    /\ brPc' = "done"
    /\ UNCHANGED << brText, brI, brMove, brStack, brMoves, pctVars, cmdVars,
                    walkVars, tagVars, impVars, coreVars >>

\* let moves = []; let currentMove = 0; let stack = []; let i = 0;
InitBranch ==
    /\ FILTER_SZ = 19
    /\ FUSEKI = FusekiNone
    /\ corpus = ViewCorpus(0)
    /\ StoreInit
    /\ allData = << >>
    /\ ViewInit
    /\ MatchIdle
    /\ PctIdle
    /\ CmdIdle
    /\ WalkIdle
    /\ brText \in ShortTexts \cup TreeTexts \cup {trim(TextB)}
    /\ brI = 1
    /\ brMove = 0
    /\ brStack = << >>
    /\ brMoves = << >>
    /\ brPc = "loop"
    /\ TagIdle
    /\ ImportIdle

NextBranch == BranchRound \/ BranchReturn

SpecBranch == InitBranch /\ [][NextBranch]_vars

\* ------------------------------------------------------------------------
\* tag over short texts
\* ------------------------------------------------------------------------

\* The pieces of the texts given to tag: the key, the two brackets, white
\* space, the characters that may stand before a key, another letter, and
\* a letter with white space around it.
TagPieces ==
    {KeyPB, << "[" >>, << "]" >>, << " " >>, << ";" >>, << "(" >>, << "x" >>,
     << " ", "x", " " >>}

\* Every text of up to MaxChunks + 1 pieces: the key, its value in
\* brackets, and whatever the remaining pieces are.
TagTexts == {Flatten(q) : q \in SeqsUpTo(TagPieces, MaxChunks + 1)}

\* const pb = tag(src, "PB");
TagCall ==
    /\ tagPc = "call"
    /\ tagOut' = tag(tagSrc, KeyPB)
    /\ tagPc' = "done"
    /\ UNCHANGED << tagSrc, pctVars, cmdVars, walkVars, brVars, impVars, coreVars >>

InitTag ==
    /\ FILTER_SZ = 19
    /\ FUSEKI = FusekiNone
    /\ corpus = ViewCorpus(0)
    /\ StoreInit
    /\ allData = << >>
    /\ ViewInit
    /\ MatchIdle
    /\ PctIdle
    /\ CmdIdle
    /\ WalkIdle
    /\ BranchIdle
    /\ tagSrc \in TagTexts
    /\ tagOut = << >>
    /\ tagPc = "call"
    /\ ImportIdle

NextTag == TagCall

SpecTag == InitTag /\ [][NextTag]_vars

\* ------------------------------------------------------------------------
\* The command Import SGF Local
\* ------------------------------------------------------------------------

\* path.extname(name) of a name without separators: from the last "." on,
\* empty when there is none or the name starts with it.
extname(name) ==
    LET dots == {i \in DOMAIN name : name[i] = "."}
    IN  IF dots = {} THEN << >>
        ELSE LET d == CHOOSE i \in dots : \A j \in dots : j <= i
             IN  IF d = 1 THEN << >> ELSE SubSeq(name, d, Len(name))

\* A destination that is the folder and the name, whatever the vault holds.
firstCandidate(vault, baseFolder, baseName) ==
    (IF baseFolder # << >> /\ baseFolder[Len(baseFolder)] = "/"
     THEN SubSeq(baseFolder, 1, Len(baseFolder) - 1)
     ELSE baseFolder) \o << "/" >> \o baseName

\* while (this.app.vault.getAbstractFileByPath(candidate)) { ... }
RECURSIVE uniqueLoop(_, _, _, _, _, _)
uniqueLoop(vault, norm, nameOnly, ext, candidate, i) ==
    IF candidate \in DOMAIN vault
    THEN uniqueLoop(vault, norm, nameOnly, ext,
                    norm \o << "/" >> \o nameOnly \o << " ", "(" >>
                         \o NatToStr(i) \o << ")" >> \o ext,
                    i + 1)
    ELSE candidate

\* const getUniqueVaultPath = async (baseFolder, baseName) => { ... }
getUniqueVaultPath(vault, baseFolder, baseName) ==
    LET norm     == IF baseFolder # << >> /\ baseFolder[Len(baseFolder)] = "/"
                    THEN SubSeq(baseFolder, 1, Len(baseFolder) - 1)
                    ELSE baseFolder
        ext      == extname(baseName)
        nameOnly == SubSeq(baseName, 1, Len(baseName) - Len(ext))
    IN  uniqueLoop(vault, norm, nameOnly, ext,
                   norm \o << "/" >> \o baseName, 1)

\* The bytes of a file that are no UTF-8 text: the two bytes of a kanji in
\* Shift_JIS. Every other byte of the model is an ASCII character, written
\* as the character.
LoneBytes == {"0x8D", "0x95"}

\* A reading that hands the bytes on as they are.
bytesAsText(bytes) == bytes

\* buffer.toString("utf8"), as readFile(abs, "utf8") decodes: a byte that
\* is part of no UTF-8 sequence becomes U+FFFD.
utf8Decode(bytes) ==
    [i \in DOMAIN bytes |->
        IF bytes[i] \in LoneBytes THEN "U+FFFD" ELSE bytes[i]]

\* The bytes vault.create writes for a string: U+FFFD is EF BF BD.
RECURSIVE utf8Encode(_)
utf8Encode(str) ==
    IF str = << >> THEN << >>
    ELSE (IF Head(str) = "U+FFFD" THEN << "0xEF", "0xBF", "0xBD" >>
          ELSE << Head(str) >>) \o utf8Encode(Tail(str))

\* e.isFile() && path.extname(e.name).toLowerCase() === ".sgf"
isSgfEntry(src, name) ==
    src[name].isFile /\ toLowerCase(extname(name)) = << "." >> \o ExtSgf

\* A call of the command may fail; MaxFaults bounds how many do.
ImportMayFail(ok) ==
    /\ ok \/ impFaults < MaxFaults
    /\ impFaults' = IF ok THEN impFaults ELSE impFaults + 1

\* The command stops with a modal.
ImportStops(modal) ==
    /\ impModal' = modal
    /\ impPc' = "done"

\* The settings are checked and the import directory is looked up:
\* if (!vaultDstRoot) ...; if (!srcDir) ...; stat = await fsp.stat(srcDir)
ImportStart ==
    /\ impPc = "start"
    /\ \E ok \in BOOLEAN :
          /\ ImportMayFail(ok \/ impRoot = << >> \/ impDir = "unset")
          /\ IF impRoot = << >> THEN ImportStops("FolderUnset")
             ELSE IF impDir = "unset" THEN ImportStops("ImportDirUnset")
             ELSE IF ~ok \/ impDir # "dir" THEN ImportStops("ImportDirMissing")
             ELSE impPc' = "ensure" /\ UNCHANGED impModal
    /\ UNCHANGED << impRoot, impDir, impSrc, impVault, impFiles, impK,
                    impData, impPath, impLog >>
    /\ UNCHANGED << pctVars, cmdVars, walkVars, brVars, tagVars, coreVars >>

\* await ensureVaultFolder(vaultDstRoot): createFolder unless the path is a
\* folder; a failure is caught by the try around the whole callback.
ImportEnsure ==
    /\ impPc = "ensure"
    /\ IF impRoot \in DOMAIN impVault /\ impVault[impRoot].kind = "folder"
       THEN /\ impPc' = "list"
            /\ UNCHANGED << impVault, impModal, impFaults >>
       ELSE \E ok \in BOOLEAN :
              /\ ImportMayFail(ok)
              /\ IF ok /\ impRoot \notin DOMAIN impVault
                 THEN /\ impVault' = (impRoot :> [kind |-> "folder", body |-> << >>])
                                        @@ impVault
                      /\ impPc' = "list"
                      /\ UNCHANGED impModal
                 ELSE /\ ImportStops("ImportError")
                      /\ UNCHANGED impVault
    /\ UNCHANGED << impRoot, impDir, impSrc, impFiles, impK, impData,
                    impPath, impLog >>
    /\ UNCHANGED << pctVars, cmdVars, walkVars, brVars, tagVars, coreVars >>

\* Every order of the elements of S.
Orders(S) ==
    {q \in [1..Cardinality(S) -> S] :
        \A i \in DOMAIN q : \A j \in DOMAIN q : i # j => q[i] # q[j]}

\* const entries = await fsp.readdir(srcDir, ...); const sgfFiles =
\* entries.filter(...).map(e => e.name), in the order readdir gives.
ImportList ==
    /\ impPc = "list"
    /\ \E ok \in BOOLEAN :
          /\ ImportMayFail(ok)
          /\ IF ok
             THEN /\ impFiles' \in
                        Orders({n \in DOMAIN impSrc : isSgfEntry(impSrc, n)})
                  /\ impPc' = "read"
                  /\ UNCHANGED impModal
             ELSE /\ ImportStops("ImportError")
                  /\ UNCHANGED impFiles
    /\ UNCHANGED << impRoot, impDir, impSrc, impVault, impK, impData,
                    impPath, impLog >>
    /\ UNCHANGED << pctVars, cmdVars, walkVars, brVars, tagVars, coreVars >>

\* What the loop notes of the file it leaves.
Imported(name, path, wasRead, wasCreated, wasUnlinked) ==
    [name |-> name, path |-> path, read |-> wasRead,
     created |-> wasCreated, unlinked |-> wasUnlinked]

\* data = await fsp.readFile(abs, "utf8"), catch { continue; }
ImportRead ==
    /\ impPc = "read"
    /\ impK <= Len(impFiles)
    /\ \E ok \in BOOLEAN :
          /\ ImportMayFail(ok)
          /\ IF ok
             THEN /\ impData' = utf8Decode(impSrc[impFiles[impK]].body)
                  /\ impPc' = "create"
                  /\ UNCHANGED << impK, impLog >>
             ELSE /\ impK' = impK + 1
                  /\ impLog' = Append(impLog,
                        Imported(impFiles[impK], << >>, FALSE, FALSE, FALSE))
                  /\ UNCHANGED << impData, impPc >>
    /\ UNCHANGED << impRoot, impDir, impSrc, impVault, impFiles, impPath,
                    impModal >>
    /\ UNCHANGED << pctVars, cmdVars, walkVars, brVars, tagVars, coreVars >>

\* const uniquePath = await getUniqueVaultPath(vaultDstRoot, fname);
\* await this.app.vault.create(uniquePath, data), catch { }: create throws
\* when the path names an entry of the vault.
ImportCreate ==
    /\ impPc = "create"
    /\ \E path \in {getUniqueVaultPath(impVault, impRoot, impFiles[impK])} :
       \E ok \in BOOLEAN :
          /\ ImportMayFail(ok)
          /\ impPath' = path
          /\ IF ok /\ path \notin DOMAIN impVault
             THEN /\ impVault' = (path :> [kind |-> "file",
                                           body |-> utf8Encode(impData)])
                                    @@ impVault
                  /\ impPc' = "unlink"
                  /\ UNCHANGED << impK, impLog >>
             ELSE /\ impK' = impK + 1
                  /\ impLog' = Append(impLog,
                        Imported(impFiles[impK], path, TRUE, FALSE, FALSE))
                  /\ impPc' = "read"
                  /\ UNCHANGED impVault
    /\ UNCHANGED << impRoot, impDir, impSrc, impFiles, impData, impModal >>
    /\ UNCHANGED << pctVars, cmdVars, walkVars, brVars, tagVars, coreVars >>

\* try { await fsp.unlink(abs); } catch { }
ImportUnlink ==
    /\ impPc = "unlink"
    /\ \E ok \in BOOLEAN :
          /\ ImportMayFail(ok)
          /\ impSrc' = IF ok
                       THEN [n \in DOMAIN impSrc \ {impFiles[impK]} |-> impSrc[n]]
                       ELSE impSrc
          /\ impLog' = Append(impLog,
                Imported(impFiles[impK], impPath, TRUE, TRUE, ok))
    /\ impK' = impK + 1
    /\ impPc' = "read"
    /\ UNCHANGED << impRoot, impDir, impVault, impFiles, impData, impPath,
                    impModal >>
    /\ UNCHANGED << pctVars, cmdVars, walkVars, brVars, tagVars, coreVars >>

\* The loop is through: new Notice(message, 8000)
ImportNotice ==
    /\ impPc = "read"
    /\ impK > Len(impFiles)
    /\ impModal' = "Notice"
    /\ impPc' = "done"
    /\ UNCHANGED << impRoot, impDir, impSrc, impVault, impFiles, impK,
                    impData, impPath, impLog, impFaults >>
    /\ UNCHANGED << pctVars, cmdVars, walkVars, brVars, tagVars, coreVars >>

\* The names of the import directory: two records whose names meet in the
\* vault, a record with an upper-case extension, a note, and a directory
\* named like a record.
NameA == << "a", ".", "s", "g", "f" >>

NameA1 == << "a", " ", "(", "1", ")", ".", "s", "g", "f" >>

NameUp == << "b", ".", "S", "G", "F" >>

NameMd == << "m", ".", "m", "d" >>

NameDir == << "d", ".", "s", "g", "f" >>

SrcNames == {NameA, NameA1, NameUp, NameMd, NameDir}

\* The import directory holding the names of T, each file with a text of
\* its own: a comment in Shift_JIS for the names of J, ASCII for the others.
SrcDir(T, J) ==
    [n \in T |->
        [isFile |-> n # NameDir,
         body   |-> (IF n \in J THEN << "C", "[", "0x8D", "0x95", "]" >>
                     ELSE << "C", "[", "k", "]" >>) \o n]]

ImportRoot == << "k", "i", "f", "u" >>

\* The vault with the entries of P, files of an older import.
VaultWith(P) == [q \in P |-> [kind |-> "file", body |-> << "older text" >>]]

VaultFolder == ImportRoot :> [kind |-> "folder", body |-> << >>]

ImportVaults ==
    {VaultFolder @@ VaultWith({ImportRoot \o << "/" >> \o n : n \in T}) :
        T \in SUBSET {NameA, NameA1, NameUp}}
    \cup {VaultWith({}), VaultWith({ImportRoot})}

InitImport ==
    /\ FILTER_SZ = 19
    /\ FUSEKI = FusekiNone
    /\ corpus = ViewCorpus(0)
    /\ StoreInit
    /\ allData = << >>
    /\ ViewInit
    /\ MatchIdle
    /\ PctIdle
    /\ CmdIdle
    /\ WalkIdle
    /\ BranchIdle
    /\ TagIdle
    /\ impRoot \in {<< >>, ImportRoot}
    /\ impDir \in {"unset", "missing", "dir"}
    /\ impSrc \in {SrcDir(T, J) : T \in SUBSET SrcNames, J \in {{}, {NameA}}}
    /\ impVault \in ImportVaults
    /\ impFiles = << >>
    /\ impK = 1
    /\ impData = << >>
    /\ impPath = << >>
    /\ impLog = << >>
    /\ impModal = "none"
    /\ impFaults = 0
    /\ impPc = "start"

NextImport ==
    \/ ImportStart
    \/ ImportEnsure
    \/ ImportList
    \/ ImportRead
    \/ ImportCreate
    \/ ImportUnlink
    \/ ImportNotice

SpecImport == InitImport /\ [][NextImport]_vars

\* ------------------------------------------------------------------------
\* Properties of the controls (under SpecView)
\* ------------------------------------------------------------------------

\* The total number of pages as the specification defines it holds page p:
\* page 1 always exists, page p > 1 exists when it has a first item.
PageExists(p) == p = 1 \/ (p >= 1 /\ (p - 1) * pageSize < Len(displayData))

\* C1: after any sequence of setKeyword, setHandicapFilter, setPageSize,
\* prevPage and nextPage from the initial state, currentPage is at least 1
\* and at most totalPages, for every index, the empty one included.
C1_PageInRange ==
    /\ 1 <= currentPage
    /\ currentPage <= pageInfo.totalPages
    /\ PageExists(currentPage)

\* nextPage was taken on the last of at least three pages and the page
\* stayed the last one.
C1_Witness ==
    /\ lastOp.op = "nextPage"
    /\ lastOp.page >= 3
    /\ lastOp.page = pageInfo.totalPages
    /\ currentPage = lastOp.page
    /\ ~PageExists(currentPage + 1)

\* ------------------------------------------------------------------------
\* Properties of the indexing run and the note store (under Spec)
\* ------------------------------------------------------------------------

Range(q) == {q[k] : k \in DOMAIN q}

\* The calls of run r on the note store.
CallsOf(r) == {k \in DOMAIN log : log[k].run = r}

\* C2: in a behaviour where no vault call fails, over any corpus and from
\* an empty note store, the first run creates the game note of each indexed
\* file once, and the second run, the files unchanged, performs no create
\* and no modify on the note store.
C2_Idempotent ==
    (faults = 0 /\ run[2].pc = "done") =>
        /\ \A f \in Range(run[1].kept) :
              Cardinality({k \in CallsOf(1) :
                              /\ log[k].op = "create"
                              /\ log[k].path = notePath(corpus.nodes[f])}) = 1
        /\ CallsOf(2) = {}

\* The same for the corpora in which no two indexed files have one basename.
C2_DistinctNames ==
    (\A f, g \in Range(run[1].kept) :
        corpus.nodes[f].basename = corpus.nodes[g].basename => f = g)
    => C2_Idempotent

\* The board size a reader finds in each sample text (0: none).
ExpectedSize(text) ==
    CASE text = TextA -> 19
      [] text = TextB -> 19
      [] text = TextC -> 13
      [] text = TextD -> 19
      [] text = TextG -> 19
      [] OTHER -> 0

\* The text run r got for file f: empty when its read failed.
TextRead(r, f) ==
    IF f \in run[r].readFailed THEN << >> ELSE corpus.nodes[f].text

\* The files of run r before position i of its scan.
Scanned(r) ==
    {run[r].files[k] : k \in 1..(run[r].i - 1)} \cap Range(run[r].files)

\* C3 as stated: a file whose read failed still has a record in the index.
C3_FailedReadIndexed ==
    \A r \in Runs : \A f \in run[r].readFailed :
        f \in Scanned(r) => f \in Range(run[r].kept)

\* C3: when the read of a file fails the scan does not abort: the file is
\* then filtered out as a text without board size, so it gets no record,
\* and every file after it whose read succeeds is still indexed by its size.
C3_FailedReadSkipped ==
    \A r \in Runs :
        /\ \A f \in run[r].readFailed : f \notin Range(run[r].kept)
        /\ (run[r].pc = "done" /\ run[r].readFailed # {}) =>
              \A f \in Range(run[r].files) :
                  (f \notin run[r].readFailed
                      /\ ExpectedSize(corpus.nodes[f].text) = FILTER_SZ)
                  => f \in Range(run[r].kept)

\* A run has ended in which the read of a file of the filter's size failed
\* and a file read after it was indexed.
C3_Witness ==
    \E r \in Runs : \E i, j \in DOMAIN run[r].files :
        /\ run[r].pc = "done"
        /\ i < j
        /\ run[r].files[i] \in run[r].readFailed
        /\ ExpectedSize(corpus.nodes[run[r].files[i]].text) = FILTER_SZ
        /\ run[r].files[j] \in Range(run[r].kept)

\* C4: a file is in the index if and only if the board size of the text read
\* for it is the filter's; the index holds one record per such file, in the
\* order of the scan (sizes 19, 19, 13 under the filter 19: two records).
C4_IndexedIffSize ==
    \A r \in Runs :
        /\ \A f \in Scanned(r) :
              f \in Range(run[r].kept)
                  <=> ExpectedSize(TextRead(r, f)) = FILTER_SZ
        /\ Len(run[r].allData) = Len(run[r].kept)
        /\ \A k \in DOMAIN run[r].kept :
              /\ run[r].allData[k].link = link(corpus.nodes[run[r].kept[k]])
              /\ \A j \in DOMAIN run[r].kept : run[r].kept[j] = run[r].kept[k] => j = k

\* The run over the files of sizes 19, 19 and 13 has ended under the
\* filter 19 with an index of two records.
C4_Witness ==
    /\ corpus = CorpusFlat
    /\ FILTER_SZ = 19
    /\ faults = 0
    /\ run[1].pc = "done"
    /\ Len(run[1].allData) = 2
    /\ Cardinality(Scanned(1)) = 3

\* ------------------------------------------------------------------------
\* Properties of the pattern matcher (under SpecMatch)
\* ------------------------------------------------------------------------

\* The name an entry of the configured list goes by.
NameOf(p) == IF p.name = "" THEN DefaultFusekiName ELSE p.name

\* The patterns read off the configured list: the names of its valid
\* entries, and the set of coordinates of each name.
PatternNames == {NameOf(FUSEKI[i]) : i \in {j \in DOMAIN FUSEKI : FUSEKI[j].x > 0 /\ FUSEKI[j].y > 0}}

CoordsOf(n) ==
    {<< FUSEKI[i].x, FUSEKI[i].y >> :
        i \in {j \in DOMAIN FUSEKI :
                  FUSEKI[j].x > 0 /\ FUSEKI[j].y > 0 /\ NameOf(FUSEKI[j]) = n}}

\* The points the colour c holds in the move list ms.
PlayedBy(ms, c) == {<< ms[j].x, ms[j].y >> : j \in {k \in DOMAIN ms : ms[k].color = c}}

\* One colour holds every coordinate of the pattern n in ms.
OneColorCovers(n, ms) ==
    \E c \in {"B", "W"} : CoordsOf(n) \subseteq PlayedBy(ms, c)

\* C5: for the opening moves of a game (at most 7) and every pattern, the
\* pattern's name is among the matched names if and only if one colour
\* holds every coordinate of the pattern; each pattern is judged on its
\* own, and no name is matched twice.
C5_MatchIffOneColor ==
    phase = "matched" =>
        /\ Len(moves) <= FUSEKI_MOVES_LIMIT
        /\ Range(matched) \subseteq PatternNames
        /\ \A n \in PatternNames : n \in Range(matched) <=> OneColorCovers(n, moves)
        /\ \A i, j \in DOMAIN matched : matched[i] = matched[j] => i = j

\* A game has matched two patterns, and another pattern of the same list
\* would need a point that white holds while black holds the rest.
C5_Witness ==
    /\ phase = "matched"
    /\ FUSEKI = FusekiMerged
    /\ Len(matched) = 2
    /\ Len(moves) = 3
    /\ PlayedBy(moves, "W") # {}

\* ms with the colour of move j turned into the opposite one.
Flip(ms, j) ==
    [ms EXCEPT ![j].color = IF ms[j].color = "B" THEN "W" ELSE "B"]

\* The moves of ms on a coordinate of the pattern n.
MovesOn(n, ms) == {j \in DOMAIN ms : << ms[j].x, ms[j].y >> \in CoordsOf(n)}

MatchedIn(ms) == Range(matchedFusekiNames(FUSEKI_GROUPS(FUSEKI), ms))

\* C6 as stated: whenever a game matches a pattern, turning the colour of a
\* move on one of the pattern's coordinates makes the pattern not match.
C6_FlipBreaksMatch ==
    phase = "matched" =>
        \A n \in Range(matched) : \A j \in MovesOn(n, moves) :
            n \notin MatchedIn(Flip(moves, j))

\* Each coordinate of the pattern n is played by exactly one move of ms.
PlayedOnce(n, ms) ==
    \A j, k \in MovesOn(n, ms) :
        (ms[j].x = ms[k].x /\ ms[j].y = ms[k].y) => j = k

\* C6: for a pattern of at least two coordinates and a game that matches it
\* with each of these coordinates played once, turning the colour of the
\* move on one of them makes the pattern not match; a pattern of a single
\* coordinate matches whichever colour plays there, so it matches before
\* and after the turn.
C6_FlipBreaksLargerMatch ==
    phase = "matched" =>
        \A n \in Range(matched) : \A j \in MovesOn(n, moves) :
            /\ (Cardinality(CoordsOf(n)) >= 2 /\ PlayedOnce(n, moves))
                   => n \notin MatchedIn(Flip(moves, j))
            /\ Cardinality(CoordsOf(n)) = 1 => n \in MatchedIn(Flip(moves, j))

\* A game matches the pattern on (4,4) and (16,16), each played once.
C6_Witness ==
    /\ phase = "matched"
    /\ FUSEKI = FusekiMerged
    /\ "hoshi" \in Range(matched)
    /\ PlayedOnce("hoshi", moves)
    /\ Cardinality(MovesOn("hoshi", moves)) = 2

\* ------------------------------------------------------------------------
\* Properties of the filter and the statistics (under SpecView)
\* ------------------------------------------------------------------------

\* The indexed records the filter keeps: those of the chosen handicap, and,
\* when a valid pattern is configured, among them those that match one.
Selected ==
    {i \in DOMAIN allData :
        /\ haSelect = HaAll \/ allData[i].haDisplay = haSelect
        /\ PatternNames # {} => Len(allData[i].matchedFusekiNames) > 0}

BlackWon(d) == Len(d.reRaw) >= 2 /\ d.reRaw[1] = "B" /\ d.reRaw[2] = "+"

WhiteWon(d) == Len(d.reRaw) >= 2 /\ d.reRaw[1] = "W" /\ d.reRaw[2] = "+"

\* C7: over the set R of aggregated records, total is the size of R, the
\* black wins are the records whose result starts with "B+", the white wins
\* those whose result starts with "W+", no record is both, and
\* blackWins + whiteWins <= total.
C7_TotalsAndWins ==
    /\ summary.total = Cardinality(Selected)
    /\ summary.bWins = Cardinality({i \in Selected : BlackWon(allData[i])})
    /\ summary.wWins = Cardinality({i \in Selected : WhiteWon(allData[i])})
    /\ summary.bWins + summary.wWins <= summary.total

\* Black wins, white wins and games that are neither are aggregated after
\* the handicap filter was set back to every handicap.
C7_Witness ==
    /\ lastOp.op = "setHandicapFilter"
    /\ haSelect = HaAll
    /\ summary.bWins > 0
    /\ summary.wWins > 0
    /\ summary.bWins + summary.wWins < summary.total

\* The aggregated records that match the pattern n.
SelectedOf(n) == {i \in Selected : n \in Range(allData[i].matchedFusekiNames)}

\* C8: there is one entry of statistics per pattern name; its total is the
\* number of aggregated records whose matched names contain the name, its
\* wins are the black and white wins among these, black + white wins do not
\* exceed its total, and its total does not exceed the overall total.
C8_PerPattern ==
    /\ DOMAIN summary.fStats = PatternNames
    /\ \A n \in PatternNames :
          /\ summary.fStats[n].total = Cardinality(SelectedOf(n))
          /\ summary.fStats[n].b =
                Cardinality({i \in SelectedOf(n) : BlackWon(allData[i])})
          /\ summary.fStats[n].w =
                Cardinality({i \in SelectedOf(n) : WhiteWon(allData[i])})
          /\ summary.fStats[n].b + summary.fStats[n].w <= summary.fStats[n].total
          /\ summary.fStats[n].total <= summary.total

\* Records that match two patterns are aggregated with records that match
\* one of the two only.
C8_Witness ==
    /\ lastOp.op = "setKeyword"
    /\ \E i \in Selected : Len(allData[i].matchedFusekiNames) = 2
    /\ \E n, m \in PatternNames :
          /\ 0 < summary.fStats[n].total
          /\ summary.fStats[n].total < summary.fStats[m].total
          /\ summary.fStats[n].b > 0
          /\ summary.fStats[m].w > 0

\* C9: the records of the list that is paged, and the records the
\* statistics count, are exactly the indexed records of the chosen handicap
\* (all of them under "subete"), restricted to the records that match a
\* pattern if and only if a valid pattern is configured.
C9_FilteredSet ==
    /\ Range(displayData) = {allData[i] : i \in Selected}
    /\ Len(displayData) = Cardinality(Selected)
    /\ summary.total = Cardinality(Selected)

\* A handicap is chosen, patterns are configured, and some but not all
\* records of that handicap match one.
C9_Witness ==
    /\ haSelect # HaAll
    /\ PatternNames # {}
    /\ 0 < Len(displayData)
    /\ Len(displayData) <
          Cardinality({i \in DOMAIN allData : allData[i].haDisplay = haSelect})

\* C10: after setKeyword, setHandicapFilter or setPageSize, from whatever
\* page, currentPage is 1, and after setPageSize pageSize is the chosen size.
C10_ResetsPage ==
    lastOp.op \in {"setKeyword", "setHandicapFilter", "setPageSize"} =>
        /\ currentPage = 1
        /\ lastOp.op = "setPageSize" => pageSize = lastOp.size

\* setPageSize was taken on a page after the first and chose another size.
C10_Witness ==
    /\ lastOp.op = "setPageSize"
    /\ lastOp.page >= 2
    /\ pageSize = 20
    /\ currentPage = 1
    /\ Len(displayData) > 20

\* ------------------------------------------------------------------------
\* Properties of paging (under SpecView)
\* ------------------------------------------------------------------------

\* What the view holds and shows (the view state without the history).
ViewShown ==
    << playerInput, haSelect, pageSize, currentPage, summary, displayData,
       pageRows, pageInfo, prevDisabled, nextDisabled >>

\* The step is one of prevPage / of nextPage.
PrevStep == lastOp' = [op |-> "prevPage", page |-> currentPage, size |-> pageSize]

NextStep == lastOp' = [op |-> "nextPage", page |-> currentPage, size |-> pageSize]

\* C11: prevPage on page 1 and nextPage on the last page leave the view
\* state and the displayed rows as they were; any other prevPage takes
\* exactly one from currentPage and any other nextPage adds exactly one,
\* with the controls left alone.
C11_PrevNextSteps ==
    [][/\ PrevStep =>
             IF currentPage = 1
             THEN ViewShown' = ViewShown
             ELSE /\ currentPage' = currentPage - 1
                  /\ << playerInput, haSelect, pageSize >>' = << playerInput, haSelect, pageSize >>
       /\ NextStep =>
             IF ~PageExists(currentPage + 1)
             THEN ViewShown' = ViewShown
             ELSE /\ currentPage' = currentPage + 1
                  /\ << playerInput, haSelect, pageSize >>' = << playerInput, haSelect, pageSize >>
      ]_vars

\* prevPage was taken on page 1 of several pages and the page stayed 1.
C11_Witness ==
    /\ lastOp.op = "prevPage"
    /\ lastOp.page = 1
    /\ currentPage = 1
    /\ PageExists(3)
    /\ prevDisabled

\* The largest list length the page count is computed for on its own.
MaxCount == 100

\* t is max(1, ceil(c / s)): at least 1, t pages of s hold c items, and
\* t - 1 pages do not unless t is 1.
IsTotalPages(c, s, t) ==
    /\ t >= 1
    /\ t * s >= c
    /\ t = 1 \/ (t - 1) * s < c

\* C12: totalPages is max(1, ceil(count / pageSize)) for the list that is
\* paged in every view state and for every count from 0 to MaxCount under
\* every page size of the select; an empty list has one page, without rows.
C12_TotalPages ==
    /\ IsTotalPages(Len(displayData), pageSize, pageInfo.totalPages)
    /\ Len(displayData) = 0 => (pageInfo.totalPages = 1 /\ pageRows = << >>)
    /\ \A c \in 0..MaxCount : \A s \in PageSizes :
          IsTotalPages(c, s, totalPagesOf(c, s))

\* The filter leaves no record of a non-empty index and a page size was
\* chosen: one page.
C12_Witness ==
    /\ lastOp.op = "setPageSize"
    /\ pageSize = 50
    /\ Len(allData) > 0
    /\ Len(displayData) = 0
    /\ pageInfo.totalPages = 1

\* The positions of the paged list that fall on the current page.
PagePositions ==
    {k \in DOMAIN displayData :
        /\ k - 1 >= (currentPage - 1) * pageSize
        /\ k - 1 < (currentPage - 1) * pageSize + pageSize}

\* C13: the displayed rows are the elements of the sorted filtered list at
\* the positions (currentPage-1)*pageSize up to but excluding
\* (currentPage-1)*pageSize + pageSize, in the order of the list; the label
\* shows currentPage, prev is enabled iff currentPage > 1 and next is
\* enabled iff currentPage < totalPages.
C13_PageSlice ==
    /\ Len(pageRows) = Cardinality(PagePositions)
    /\ \A i \in DOMAIN pageRows :
          LET d == displayData[(currentPage - 1) * pageSize + i]
          IN  pageRows[i] = << d.pb, d.pw, d.gn, d.haDisplay, d.reDisplay, d.link >>
    /\ pageInfo.page = currentPage
    /\ ~prevDisabled <=> currentPage > 1
    /\ ~nextDisabled <=> currentPage < pageInfo.totalPages

\* The last of three pages is shown and it is not full.
C13_Witness ==
    /\ lastOp.op = "nextPage"
    /\ currentPage = 3
    /\ pageSize = 10
    /\ Len(pageRows) > 0
    /\ Len(pageRows) < pageSize
    /\ nextDisabled
    /\ ~prevDisabled

\* ------------------------------------------------------------------------
\* Properties of the keyword sort (under SpecView)
\* ------------------------------------------------------------------------

\* The strings a and b are equal up to the case of their letters.
EqualFold(a, b) ==
    /\ Len(a) = Len(b)
    /\ \A i \in DOMAIN a :
          \/ a[i] = b[i]
          \/ \E k \in DOMAIN Lower : {a[i], b[i]} = {Lower[k], Upper[k]}

\* b occurs in a up to the case of letters.
ContainsFold(a, b) ==
    \E off \in 0..(Len(a) - Len(b)) :
        EqualFold(SubSeq(a, off + 1, off + Len(b)), b)

\* 2 when a name of d equals the keyword kw, 1 when a name only contains
\* it, 0 otherwise.
TierOf(d, kw) ==
    IF EqualFold(d.pb, kw) \/ EqualFold(d.pw, kw) THEN 2
    ELSE IF ContainsFold(d.pb, kw) \/ ContainsFold(d.pw, kw) THEN 1
    ELSE 0

\* Where the record d stands in the index (the filter keeps that order).
PosOf(d) == CHOOSE i \in DOMAIN allData : allData[i] = d

\* C14: with a non-empty keyword, in the displayed order every record with
\* a name equal to the keyword (case-insensitively) stands before every
\* record with a name that only contains it, these before every other
\* record, and records of one tier stand in their order of the filtered
\* list; with an empty keyword the order is the one of the filtered list.
C14_SortTiers ==
    LET kw   == trim(playerInput)
        tier == [i \in DOMAIN displayData |->
                    IF kw = << >> THEN 0 ELSE TierOf(displayData[i], kw)] \o << >>
        pos  == [i \in DOMAIN displayData |-> PosOf(displayData[i])] \o << >>
    IN  \A i, j \in DOMAIN displayData :
            i < j => \/ tier[i] > tier[j]
                     \/ tier[i] = tier[j] /\ pos[i] < pos[j]

\* A keyword is set under which the three tiers are displayed and a record
\* stands before one that precedes it in the index.
C14_Witness ==
    /\ lastOp.op = "setKeyword"
    /\ trim(playerInput) # << >>
    /\ {TierOf(displayData[i], trim(playerInput)) : i \in DOMAIN displayData} = {0, 1, 2}
    /\ \E i, j \in DOMAIN displayData :
          i < j /\ PosOf(displayData[i]) > PosOf(displayData[j])

\* ------------------------------------------------------------------------
\* Properties of the percentage helper (under SpecPct)
\* ------------------------------------------------------------------------

\* The text s is a number written with exactly one decimal: digits without
\* a needless leading zero, a point, one digit.
OneDecimal(s) ==
    /\ Len(s) >= 3
    /\ s[Len(s) - 1] = "."
    /\ \A i \in (1..Len(s)) \ {Len(s) - 1} : IsDigit(s[i])
    /\ (Len(s) > 3 => s[1] # "0")

\* The number of tenths a text with one decimal stands for.
TenthsOf(s) ==
    10 * DigitsVal(SubSeq(s, 1, Len(s) - 2)) + DigitsVal(<< s[Len(s)] >>)

\* The integer v is wins * 1000 / total rounded to the nearest integer, a
\* half going up: v - 1/2 <= wins * 1000 / total < v + 1/2.
IsRounded(v, wins, total) ==
    /\ (2 * v - 1) * total <= 2000 * wins
    /\ 2000 * wins < (2 * v + 1) * total

\* C15: for 0 <= wins <= total the helper returns "0.0" when total = 0 and
\* otherwise round(wins * 1000 / total) / 10 written with exactly one
\* decimal; 1 win of 2 gives "50.0".
C15_Percentage ==
    pctText # << >> =>
        /\ OneDecimal(pctText)
        /\ pctD = 0 => pctText = << "0", ".", "0" >>
        /\ pctD > 0 => IsRounded(TenthsOf(pctText), pctN, pctD)
        /\ (pctN = 1 /\ pctD = 2) => pctText = << "5", "0", ".", "0" >>

\* The helper was called on a ratio that lies exactly between two tenths
\* of a percent.
C15_Witness ==
    /\ pctText # << >>
    /\ pctD > 0
    /\ (2000 * pctN) % pctD = 0
    /\ ((2000 * pctN) \div pctD) % 2 = 1

\* ------------------------------------------------------------------------
\* Properties of the command Create Show Data (under SpecCmd)
\* ------------------------------------------------------------------------

\* No root folder is configured (the setting is empty or blank), or the
\* configured root does not resolve to a folder.
ConfigAbsent ==
    \/ \A i \in DOMAIN sgfFolderPath : sgfFolderPath[i] = " "
    \/ corpus.root = 0
    \/ corpus.nodes[corpus.root].kind # "folder"

\* The command made no vault call and the active file is as it was.
Untouched ==
    /\ cmdLog = << >>
    /\ cmdPc # "modify"
    /\ activeFile \in {NoFile, MemoFile}

\* The configuration error that belongs to the state of the settings.
ConfigError ==
    IF \A i \in DOMAIN sgfFolderPath : sgfFolderPath[i] = " "
    THEN "FolderUnset" ELSE "FolderNotFound"

\* The dependency check lets the command go on to the folder check.
DataviewPasses ==
    \/ enabledPlugins.state = "throws"
    \/ enabledPlugins.state = "set" /\ "dataview" \in enabledPlugins.ids

C17_StoreFailuresContained ==
    \A r \in Runs :
        /\ \A f \in run[r].storeFailed :
              f \in Scanned(r) => f \in Range(run[r].kept)
        /\ (run[r].storeFailed # {} /\ run[r].pc = "done") =>
              /\ run[r].i = Len(run[r].files) + 1
              /\ \A f \in Range(run[r].files) :
                    (f \notin run[r].readFailed
                        /\ ExpectedSize(corpus.nodes[f].text) = FILTER_SZ)
                    => f \in Range(run[r].kept)

\* A run has ended in which createFolder failed for a file, the create that
\* followed found no folder, and a file after it was indexed with its note.
C17_Witness ==
    \E r \in Runs : \E i, j \in DOMAIN run[r].files :
        /\ run[r].pc = "done"
        /\ i < j
        /\ run[r].files[i] \in run[r].storeFailed
        /\ run[r].files[i] \in Range(run[r].kept)
        /\ notePath(corpus.nodes[run[r].files[i]]) \notin DOMAIN notes
        /\ run[r].files[j] \in Range(run[r].kept)
        /\ notePath(corpus.nodes[run[r].files[j]]) \in DOMAIN notes

\* The text t without the blanks at its two ends.
Stripped(t) ==
    LET ks == {k \in DOMAIN t : t[k] \notin {" ", "\n", "\t"}}
    IN  IF ks = {} THEN << >>
        ELSE SubSeq(t, CHOOSE k \in ks : \A m \in ks : k <= m,
                       CHOOSE k \in ks : \A m \in ks : m <= k)

\* The fenced block that wraps the trimmed text of file f.
OwnBody(f) ==
    << "(fence)sgf\n" >> \o Stripped(corpus.nodes[f].text) \o << "\n(fence)" >>

\* Run r has ended and no later run has started.
Ended(r) ==
    /\ run[r].pc = "done"
    /\ \A q \in Runs : q > r => run[q].pc = "idle"

\* C18: after a run in which no vault call failed, over any folder tree,
\* the game note at the note path of every indexed record holds the fenced
\* block of that record's own trimmed text.
C18_NoteHoldsOwnText ==
    \A r \in Runs :
        (faults = 0 /\ Ended(r)) =>
            \A f \in Range(run[r].kept) :
                /\ notePath(corpus.nodes[f]) \in DOMAIN notes
                /\ notes[notePath(corpus.nodes[f])] = OwnBody(f)

\* The same for the corpora in which no two indexed files have one basename.
C18_DistinctNames ==
    (\A r \in Runs : \A f, g \in Range(run[r].kept) :
        corpus.nodes[f].basename = corpus.nodes[g].basename => f = g)
    => C18_NoteHoldsOwnText

\* The branch numbers a reader finds in each sample text: TextB has two
\* variations after its first move, the second one numbered 2.
ExpectedBranches(text) == IF text = TextB THEN << 1, 2 >> ELSE << >>

\* The calls on review notes in the log.
ReviewCalls == {k \in DOMAIN log : log[k].path[1] = REVIEW_DIR}

\* Section k of a review note of file f for the ply number n.
Section(f, k, n) ==
    << "### kento" >> \o NatToStr(k) \o << "\n![[", f.basename, "." >>
        \o f.extension \o << "|move=" >> \o NatToStr(n) \o << "]]" >>

\* The first k sections for the numbers nums, a rule between two.
RECURSIVE SectionsUpTo(_, _, _)
SectionsUpTo(f, nums, k) ==
    IF k = 0 THEN << >>
    ELSE SectionsUpTo(f, nums, k - 1)
            \o (IF k > 1 THEN << "\n\n---\n\n" >> ELSE << >>)
            \o Section(f, k, nums[k])

NoContainer == corpus.root = 0 \/ corpus.nodes[corpus.root].kind # "folder"

\* C20: when the root does not resolve to an existing folder (it is
\* missing, or it resolves to something that is not a folder), the scan of
\* a run returns the empty list.
C20_NoContainerEmpty ==
    \A r \in Runs :
        (run[r].pc # "idle" /\ NoContainer) => run[r].files = << >>

\* What the scan returns on such a root: nothing when the root is missing
\* or a file of another kind, the root itself when it is a game file.
C20_FileRootScanned ==
    \A r \in Runs :
        (run[r].pc # "idle" /\ NoContainer) =>
            run[r].files =
                IF corpus.root # 0 /\ corpus.nodes[corpus.root].extension = ExtSgf
                THEN << corpus.root >> ELSE << >>

\* ------------------------------------------------------------------------
\* Properties of the traversal (under SpecScan)
\* ------------------------------------------------------------------------

\* The entries that lie under entry a, a itself included, found by walking
\* up from each entry (children lists give the parent of an entry).
ParentOf(i) ==
    {j \in DOMAIN corpus.nodes : i \in Range(corpus.nodes[j].children)}

RECURSIVE Under(_, _, _)
Under(i, a, fuel) ==
    \/ i = a
    \/ fuel > 0 /\ \E j \in ParentOf(i) : Under(j, a, fuel - 1)

\* The game files under the root: leaves whose extension is sgf in any case.
GameLeaves ==
    IF corpus.root = 0 THEN {}
    ELSE {i \in DOMAIN corpus.nodes :
            /\ Under(i, corpus.root, Len(corpus.nodes))
            /\ corpus.nodes[i].kind = "file"
            /\ Len(corpus.nodes[i].extension) = 3
            /\ corpus.nodes[i].extension[1] \in {"s", "S"}
            /\ corpus.nodes[i].extension[2] \in {"g", "G"}
            /\ corpus.nodes[i].extension[3] \in {"f", "F"}}

\* What the traversal has returned is right: every game file under the
\* root exactly once, no folder and no other file.
WalkCorrect ==
    /\ Range(walkResults) = GameLeaves
    /\ Len(walkResults) = Cardinality(GameLeaves)
    /\ walkStack = << >>
    /\ walkResults = walkSgfFiles(corpus)

\* C21: over every folder tree the traversal terminates, and it returns
\* each leaf under the root whose extension is sgf in any case exactly
\* once, at any depth, and no folder and no entry of another extension.
C21_WalkTerminatesCorrect ==
    /\ [](walkPc = "done" => WalkCorrect)
    /\ <>(walkPc = "done")

\* The traversal has ended on a tree whose only file lies three folders
\* deep and has its extension in upper case.
C21_Witness ==
    /\ walkPc = "done"
    /\ corpus.root = 1
    /\ Len(corpus.nodes) = MaxNodes
    /\ corpus.nodes[2].kind = "folder"
    /\ 3 \in Range(corpus.nodes[2].children)
    /\ corpus.nodes[3].kind = "folder"
    /\ 4 \in Range(corpus.nodes[3].children)
    /\ corpus.nodes[4].extension = ExtSGF
    /\ walkResults = << 4 >>

\* ------------------------------------------------------------------------
\* Properties of the branch point detector (under SpecBranch)
\* ------------------------------------------------------------------------

\* Position p of the text lies inside a bracketed value: after a "[" with
\* no "]" in between, and before or at the "]" that closes it.
InValue(p) ==
    \E q \in 1..(p - 1) :
        /\ brText[q] = "["
        /\ \A r \in (q + 1)..(p - 1) : brText[r] # "]"
        /\ \E e \in p..Len(brText) : brText[e] = "]"

\* The markers of kind c that stand outside bracketed values.
Markers(c) == {p \in DOMAIN brText : brText[p] = c /\ ~InValue(p)}

\* The "(" at q is still open just before position p: between them never
\* as many ")" as "(" were met, q counted.
StillOpen(q, p) ==
    \A r \in q..(p - 1) :
        Cardinality(Markers("(") \cap q..r) > Cardinality(Markers(")") \cap q..r)

\* The "(" at p opens inside another one.
Nested(p) == \E q \in Markers("(") : q < p /\ StillOpen(q, p)

ColourNodeAt(p) ==
    /\ p + 2 <= Len(brText)
    /\ brText[p] = ";"
    /\ brText[p + 1] \in {"B", "W"}
    /\ brText[p + 2] = "["

\* A stone placement starts at p: a colour node whose value is two
\* lower-case letters.
StoneAt(p) ==
    /\ ColourNodeAt(p)
    /\ p + 5 <= Len(brText)
    /\ \A k \in {p + 3, p + 4} :
          brText[k] \in {"a", "b", "c", "d", "e", "f", "g", "h", "i", "j", "k",
                         "l", "m", "n", "o", "p", "q", "r", "s", "t", "u", "v",
                         "w", "x", "y", "z"}
    /\ brText[p + 5] = "]"

PliesBefore(p) == {q \in Markers(";") : q < p /\ ColourNodeAt(q)}

\* The colour nodes on the path from the start of the game to position p:
\* those before p that lie in no variation closed before p.
PathPlies(p) ==
    {q \in PliesBefore(p) :
        \A r \in Markers("(") : (r < q /\ StillOpen(r, q)) => StillOpen(r, p)}

\* The nested "(" markers in text order.
NestedOpens == SortedSeq({p \in Markers("(") : Nested(p)})

\* C24: each number of the result is the number of plies on the path from
\* the start of the game to the node its variation branches from, so two
\* variations that branch from one node get the same number.
C24_PathPlyNumbers ==
    brPc = "done" =>
        /\ Len(brMoves) = Len(NestedOpens)
        /\ \A k \in DOMAIN NestedOpens :
              brMoves[k] = Cardinality(PathPlies(NestedOpens[k]))

\* What the numbers are: the plies met in the text before the marker, the
\* plies of variations closed before it included.
C24_TextOrderNumbers ==
    brPc = "done" =>
        /\ Len(brMoves) = Len(NestedOpens)
        /\ \A k \in DOMAIN NestedOpens :
              brMoves[k] = Cardinality(PliesBefore(NestedOpens[k]))

\* ------------------------------------------------------------------------
\* Properties of the move sequence extractor (under SpecMatch)
\* ------------------------------------------------------------------------

Alphabet ==
    << "a", "b", "c", "d", "e", "f", "g", "h", "i", "j", "k", "l", "m", "n",
       "o", "p", "q", "r", "s", "t", "u", "v", "w", "x", "y", "z" >>

\* The number of a lower-case letter: a is 1, b is 2, ...
LetterNo(c) == CHOOSE k \in DOMAIN Alphabet : Alphabet[k] = c

\* The positions of the game text where a stone placement starts: ";", a
\* colour, and a bracketed value of exactly two lower-case letters.
Placements ==
    {p \in DOMAIN game :
        /\ p + 5 <= Len(game)
        /\ game[p] = ";"
        /\ game[p + 1] \in {"B", "W"}
        /\ game[p + 2] = "["
        /\ game[p + 3] \in Range(Alphabet)
        /\ game[p + 4] \in Range(Alphabet)
        /\ game[p + 5] = "]"}

\* C25: the extractor returns at most FUSEKI_MOVES_LIMIT moves: the first
\* stone placements of the text from left to right, with their colour and
\* their letters as numbers from a = 1; a pass or a value that is not two
\* lower-case letters gives no move and uses up none of the slots.
C25_FirstPlacements ==
    phase # "text" /\ phase # "idle" =>
        LET ps == SortedSeq(Placements)
            n  == IF Len(ps) < FUSEKI_MOVES_LIMIT THEN Len(ps)
                  ELSE FUSEKI_MOVES_LIMIT
        IN  /\ Len(moves) = n
            /\ \A k \in 1..n :
                  /\ moves[k].color = game[ps[k] + 1]
                  /\ moves[k].x = LetterNo(game[ps[k] + 3])
                  /\ moves[k].y = LetterNo(game[ps[k] + 4])

\* The moves were extracted from a text with a pass and a value of upper
\* case letters before each of its stones, more stones than slots: the
\* result is full.
C25_Witness ==
    /\ phase = "moves"
    /\ Cardinality(Placements) = FUSEKI_MOVES_LIMIT + 1
    /\ OccursAt(game, PassW \o UpperCase, 1)
    /\ Len(moves) = FUSEKI_MOVES_LIMIT

\* ------------------------------------------------------------------------
\* Properties of the tag extractor (under SpecTag)
\* ------------------------------------------------------------------------

\* The key at position k stands at the start of the text or after white
\* space, ";", "(" or "]".
Introduced(k) ==
    k = 1 \/ (k > 1 /\ (tagSrc[k - 1] \in {";", "(", "]"} \/ IsSpace(tagSrc[k - 1])))

\* The key stands at k, and after white space only its value opens at q
\* and is closed at c, the first "]" after q.
ValueAt(k, q, c) ==
    /\ OccursAt(tagSrc, KeyPB, k)
    /\ Introduced(k)
    /\ q >= k + Len(KeyPB)
    /\ q < c
    /\ c <= Len(tagSrc)
    /\ \A j \in (k + Len(KeyPB))..(q - 1) : IsSpace(tagSrc[j])
    /\ tagSrc[q] = "["
    /\ tagSrc[c] = "]"
    /\ \A j \in (q + 1)..(c - 1) : tagSrc[j] # "]"

Occurrences ==
    {k \in DOMAIN tagSrc :
        \E q \in DOMAIN tagSrc : \E c \in DOMAIN tagSrc : ValueAt(k, q, c)}

\* v is w without the white space at its two ends.
IsTrimOf(v, w) ==
    \E a \in 0..Len(w) : \E b \in 0..(Len(w) - a) :
        /\ v = SubSeq(w, a + 1, Len(w) - b)
        /\ \A j \in 1..a : IsSpace(w[j])
        /\ \A j \in (Len(w) - b + 1)..Len(w) : IsSpace(w[j])
        /\ v # << >> => ~IsSpace(v[1]) /\ ~IsSpace(v[Len(v)])

\* C26: tag returns the trimmed contents of the first bracketed value that
\* follows, after white space only, a key standing at the start of the text
\* or after white space, ";", "(" or "]"; it returns the empty string when
\* the text has no such key, whatever else it holds in brackets.
C26_FirstIntroducedValue ==
    tagPc = "done" =>
        IF Occurrences = {} THEN tagOut = << >>
        ELSE \E k \in Occurrences :
                /\ \A j \in Occurrences : k <= j
                /\ \E q \in DOMAIN tagSrc : \E c \in DOMAIN tagSrc :
                      /\ ValueAt(k, q, c)
                      /\ IsTrimOf(tagOut, SubSeq(tagSrc, q + 1, c - 1))

\* tag returned the value of a key at the start of the text without the
\* white space before it.
C26_Witness ==
    /\ tagPc = "done"
    /\ tagSrc = KeyPB \o << "[", " ", "x", " ", "]" >>
    /\ tagOut = << "x" >>

\* A value in brackets before the key and none after it give the empty
\* string.
C26_WitnessAbsent ==
    /\ tagPc = "done"
    /\ tagSrc = << "[", " ", "x", " ", "]" >> \o KeyPB
    /\ tagOut = << >>

\* ------------------------------------------------------------------------
\* What the controls leave alone (under SpecView)
\* ------------------------------------------------------------------------

\* How often x stands in the sequence q.
Times(q, x) == Cardinality({i \in DOMAIN q : q[i] = x})

\* The sequences p and q hold the same elements, each as often.
SameRecords(p, q) ==
    /\ Len(p) = Len(q)
    /\ \A i \in DOMAIN p : Times(p, p[i]) = Times(q, p[i])

\* The handlers that leave the handicap filter alone.
FrameOps == {"setKeyword", "setPageSize", "prevPage", "nextPage"}

\* C27: setKeyword, setPageSize, prevPage and nextPage leave the statistics
\* (total, black wins, white wins, the counts per pattern) and the number
\* of filtered records as they were, and the rows of the list are the same
\* records, reordered at most; a step that changes the statistics is a
\* setHandicapFilter.
C27_StatisticsFrame ==
    [][/\ lastOp'.op \in FrameOps =>
             /\ summary' = summary
             /\ SameRecords(displayData', displayData)
       /\ summary' # summary => lastOp'.op = "setHandicapFilter"]_vars

\* A keyword has put the rows of several records in another order than the
\* index has them, and the statistics count every one of them.
C27_Witness ==
    /\ lastOp.op = "setKeyword"
    /\ Len(displayData) > 1
    /\ displayData # filterData(allData, haSelect, FUSEKI_GROUPS(FUSEKI))
    /\ summary.total = Len(displayData)
    /\ summary.total > summary.bWins

\* ------------------------------------------------------------------------
\* The pages as a partition of the list (under SpecView)
\* ------------------------------------------------------------------------

\* The rows of the pages 1..p, one page after the other.
RECURSIVE PagesUpTo(_)
PagesUpTo(p) ==
    IF p = 0 THEN << >>
    ELSE PagesUpTo(p - 1) \o pageRowsOf(displayData, p, pageSize)

\* C28: the pages 1..totalPages, visited with nextPage, show every record
\* of the sorted filtered list once and in order: every page before the
\* last holds pageSize rows, the last page at least one and at most
\* pageSize, none only when the list is empty; the page shown is the page
\* of currentPage, and nextPage before the last page shows the next one of
\* the same list.
C28_PagesPartition ==
    /\ [](LET T    == pageInfo.totalPages
              last == pageRowsOf(displayData, T, pageSize)
          IN  /\ PagesUpTo(T) = [i \in DOMAIN displayData |-> rowOf(displayData[i])]
              /\ \A p \in 1..(T - 1) :
                    Len(pageRowsOf(displayData, p, pageSize)) = pageSize
              /\ Len(last) <= pageSize
              /\ Len(last) = 0 <=> displayData = << >>
              /\ pageRows = pageRowsOf(displayData, currentPage, pageSize))
    /\ [][(lastOp'.op = "nextPage" /\ currentPage < pageInfo.totalPages) =>
             /\ currentPage' = currentPage + 1
             /\ displayData' = displayData
             /\ pageSize' = pageSize
             /\ pageInfo'.totalPages = pageInfo.totalPages]_vars

\* nextPage has come from the second page to the third and last one, which
\* holds fewer rows than a page can.
C28_Witness ==
    /\ lastOp.op = "nextPage"
    /\ lastOp.page = 2
    /\ currentPage = 3
    /\ pageInfo.totalPages = 3
    /\ Len(pageRows) > 0
    /\ Len(pageRows) < pageSize

\* ------------------------------------------------------------------------
\* Properties of the command Import SGF Local (under SpecImport)
\* ------------------------------------------------------------------------

\* The vault holds a file with the bytes of the entry n of the import
\* directory.
HeldInVault(n) ==
    \E p \in DOMAIN impVault :
        impVault[p] = [kind |-> "file", body |-> impSrc[n].body]

\* The bytes of the entry n are UTF-8 text.
IsUtf8(n) == \A i \in DOMAIN impSrc[n].body : impSrc[n].body[i] \notin LoneBytes

\* The files the loop has left without a vault file of theirs are in the
\* import directory as they were, and the loop went on after each of them.
FailedStay ==
    /\ Len(impLog) = impK - 1
    /\ \A k \in DOMAIN impLog :
          /\ impLog[k].name = impFiles[k]
          /\ ~(impLog[k].read /\ impLog[k].created) =>
                impLog[k].name \in DOMAIN impSrc
    /\ impModal = "Notice" => Len(impLog) = Len(impFiles)

\* C29: a file leaves the import directory only when the vault holds a file
\* with its text, created by the command; a file that could not be read or
\* whose vault file could not be created stays in the import directory and
\* the loop goes on with the next file; the path given to create names no
\* entry of the vault, and no entry of the vault is removed or changed.
C29_NoRecordLost ==
    /\ [][/\ \A n \in DOMAIN impSrc : n \notin DOMAIN impSrc' => HeldInVault(n)
          /\ \A p \in DOMAIN impVault :
                p \in DOMAIN impVault' /\ impVault'[p] = impVault[p]
          /\ impPc = "create" => impPath' \notin DOMAIN impVault]_vars
    /\ []FailedStay

\* C29 for the files that are UTF-8 text: such a file leaves the import
\* directory only when the vault holds a file with its bytes; a file that
\* could not be read or created stays; create is given a path that names
\* no entry, and no entry of the vault is removed or changed.
C29_Utf8RecordKept ==
    /\ [][/\ \A n \in DOMAIN impSrc :
                (n \notin DOMAIN impSrc' /\ IsUtf8(n)) => HeldInVault(n)
          /\ \A p \in DOMAIN impVault :
                p \in DOMAIN impVault' /\ impVault'[p] = impVault[p]
          /\ impPc = "create" => impPath' \notin DOMAIN impVault]_vars
    /\ []FailedStay

\* The command is through: the first file could not be read and is still in
\* the import directory, the second one met an entry of its name in the
\* vault, was created under a numbered name and removed from the directory.
C29_Witness ==
    /\ impPc = "done"
    /\ impModal = "Notice"
    /\ Len(impLog) = 2
    /\ ~impLog[1].read
    /\ impLog[1].name \in DOMAIN impSrc
    /\ impLog[2].unlinked
    /\ impLog[2].path # ImportRoot \o << "/" >> \o impLog[2].name
    /\ impLog[2].name \notin DOMAIN impSrc
    /\ impVault[impLog[2].path].body = << "C", "[", "k", "]" >> \o impLog[2].name

\* ------------------------------------------------------------------------
\* Properties of two runs at once (under SpecOverlap)
\* ------------------------------------------------------------------------

\* Both runs have ended.
BothDone == run[1].pc = "done" /\ run[2].pc = "done"

\* Run r went through every file of the scan.
WentThrough(r) ==
    /\ run[r].files = walkSgfFiles(corpus)
    /\ run[r].i = Len(run[r].files) + 1

\* C30: two runs over one unchanged corpus of distinct basenames, their
\* steps interleaved at the reads and the calls on the note store: each run
\* ends only after its last file, and never because a call was rejected;
\* when both have ended they hold the same index, the one a run alone
\* builds, and the game note of every indexed record holds the fenced
\* trimmed text of its file.
C30_OverlappingRuns ==
    /\ \A r \in {1, 2} : run[r].pc = "done" => WentThrough(r)
    /\ BothDone =>
          /\ run[1].allData = run[2].allData
          /\ run[1].allData = indexAll(corpus)
          /\ \A f \in Range(run[1].kept) \cup Range(run[2].kept) :
                /\ notePath(corpus.nodes[f]) \in DOMAIN notes
                /\ notes[notePath(corpus.nodes[f])] = OwnBody(f)

\* Both runs have ended; each of them called create for the game note of
\* one file, and the call of one run was rejected because the other run's
\* note was there.
C30_Witness ==
    /\ BothDone
    /\ run[1].kept # << >>
    /\ \E i \in DOMAIN log : \E j \in DOMAIN log :
          /\ log[i].op = "create" /\ log[j].op = "create"
          /\ log[i].path = log[j].path
          /\ log[i].path[1] = NOTE_DIR
          /\ log[i].run # log[j].run
          /\ log[i].done /\ ~log[j].done

=============================================================================
